---- MODULE Spec2Model ----
(***************************************************************************)
(* Sectify protected-audio core: the processing-lock manager               *)
(* (app/core/file_lock_manager.py) and the session manager                 *)
(* (app/core/session_manager.py).                                          *)
(*                                                                         *)
(* Both run on one asyncio event loop: the code between two awaits is one  *)
(* atomic step.  The only await of acquire_processing_lock before the      *)
(* guarded scope is asyncio.wait_for(file_lock.acquire(), ...).            *)
(***************************************************************************)
EXTENDS Integers, Sequences, FiniteSets, TLC

----------------------------------------------------------------------------
(* Bounds of the lock-manager model *)

MaxAttempts == 4

(* Program constants, file_lock_manager.py __init__ *)
max_concurrent_per_user == 3
lock_timeout_minutes == 30
cleanup_interval == 300

Callers == {"c1", "c2", "c3", "c4"}
Users == {"u1", "u2"}
Tracks == {"t1", "t2", "t3", "t4"}
Operations == {"enc", "dec"}

(* lock_key = f"{track_id}:{operation}" *)
LockKey(t, o) == <<t, o>>

(* the requests each caller sends: c1, c2 and c3 process their own track  *)
(* for u1; c4 meets c1 on t1 (the same key as u1 or as u2, or the other   *)
(* operation of the track), or is the fourth request of u1 on t4           *)
Request(t, u, o) == [track |-> t, user |-> u, op |-> o]
RequestsOf(c) ==
    CASE c = "c1" -> {Request("t1", "u1", "enc")}
      [] c = "c2" -> {Request("t2", "u1", "enc")}
      [] c = "c3" -> {Request("t3", "u1", "enc")}
      [] OTHER    -> {Request("t1", "u1", "enc"), Request("t1", "u2", "enc"),
                      Request("t1", "u1", "dec"), Request("t4", "u1", "enc")}

NoArg == Request("t1", "u1", "enc")

Finished(kind, req) == [kind |-> kind, req |-> req]

(* the readings of the wall clock: start, the last instant at which a     *)
(* lock taken at 0 is alive, and the first instant at which it is expired  *)
ClockReadings == {0, lock_timeout_minutes * 60, lock_timeout_minutes * 60 + 1}

VARIABLES
    now,               \* wall clock, seconds
    processing_locks,  \* _processing_locks: lock_key -> lock_data
    user_processing,   \* _user_processing: user_id -> set of track_ids
    file_locks,        \* _file_locks: track_id -> asyncio.Lock (locked flag, waiter queue)
    last_cleanup,      \* FileLockManager.last_cleanup
    pc,                \* position of each caller in acquire_processing_lock
    arg,               \* (track_id, user_id, operation) of the caller's current attempt
    outcome,           \* the most recently finished attempt: its request and how it ended
    beaten,            \* another attempt on the same key entered the scope during this attempt
    attempts           \* number of attempts started so far

VARIABLES
    active_sessions,   \* _active_sessions: session_id -> session_data
    revoked_sessions,  \* _revoked_sessions
    user_sessions,     \* _user_sessions: user_id -> set of session_ids
    session_cleanup,   \* SessionManager.last_cleanup
    next_sid,          \* the next fresh session id (ids are never repeated)
    validation,        \* what the last call of validate_session returned: "data", "None", or "none yet"
    ever_revoked,      \* the session ids revoked so far
    calls,             \* number of validate and revoke calls made so far
    workload,          \* how many sessions are opened and how many other calls are made
    session_timeout_minutes  \* SessionManager.session_timeout_minutes = ACCESS_TOKEN_EXPIRE_MINUTES

VARIABLES
    secure_track_sessions,  \* _secure_track_sessions: access token -> session
    next_token,             \* the next fresh access token (tokens are never repeated)
    auth_result             \* what the last call of the authorization service returned or raised

VARIABLES
    track_tokens,      \* the signed track tokens handed out so far
    verdict            \* how the last call of verify_track_token ended

VARIABLES
    hls_dirs,          \* the directories under the HLS root
    hls_files,         \* the files under the HLS root: <<directory, name>> -> mtime
    sweep,             \* the position and the local variables of cleanup_loop / _cleanup_once
    removed,           \* the files deleted by the sweep so far, with the time of deletion
    created,           \* number of files created by the HLS generator so far
    passes             \* number of sweep passes finished so far

VARIABLES
    PERFORMANCE_MODE,  \* the cipher's mode, read from the environment at import
    protected,         \* the blob a caller keeps, and what it was made from
    cipher_result      \* how the last call of the cipher ended

VARIABLES
    _progress_storage, \* track id -> the progress record last published for it
    episode,           \* the position and the locals of encrypt_audio_file
    published,         \* the progress_percent values published in this episode
    episodes,          \* number of calls of encrypt_audio_file so far
    output_files       \* track id -> what is at the output path of its encryption

VARIABLES
    login,             \* handler -> the position and the locals of its create_session call
    running            \* the handler that is running between two awaits, if any

VARIABLES
    completion,        \* the position and the locals of wait_for_processing_completion
    waits              \* number of calls of wait_for_processing_completion so far

VARIABLES
    IS_PRODUCTION,     \* app.core.config.IS_PRODUCTION, read at import
    responses,         \* the calls of handle_exception so far, each with the response it built
    error_log          \* what the last call of handle_exception wrote to the log

VARIABLES
    diffusion          \* a mixed byte of the keystream generator, before and after lines 136-141

VARIABLES
    environ,           \* os.environ['CHAOTIC_PERFORMANCE_MODE'], or Absent
    file_call,         \* worker -> the position and the locals of its encrypt/decrypt_audio_file call
    file_calls         \* number of calls of encrypt/decrypt_audio_file so far

VARIABLES
    arrays,            \* array object -> its elements: the input vectors and the lattices of the calls
    generator,         \* worker -> the position and the locals of its _generate_keystream_cml call
    keystreams,        \* worker -> the arguments and the bytes of the call it completed last
    generated          \* number of calls of _generate_keystream_cml so far

VARIABLES
    connected,         \* RedisStorageAdapter.connected
    redis_keys,        \* the Redis server: key -> the value stored and the time it expires
    redis_call,        \* client -> the position and the locals of its adapter call, and what its last call returned
    wins,              \* the acquisitions that took effect since the key was last deleted: client and expiry
    redis_calls        \* number of adapter calls so far

VARIABLES
    sanity             \* the last call of encrypt_with_validation: the CML state it analysed and the blob it returned

lockState == <<processing_locks, user_processing, file_locks, last_cleanup,
               pc, arg, outcome, beaten, attempts>>

sessionState == <<active_sessions, revoked_sessions, user_sessions, session_cleanup,
                  next_sid, validation, ever_revoked, calls, workload,
                  session_timeout_minutes>>

authState == <<secure_track_sessions, next_token, auth_result>>

tokenState == <<track_tokens, verdict>>

hlsState == <<hls_dirs, hls_files, sweep, removed, created, passes>>

cipherState == <<PERFORMANCE_MODE, protected, cipher_result>>

progressState == <<_progress_storage, episode, published, episodes, output_files>>

loginState == <<login, running>>

waitState == <<completion, waits>>

errorState == <<IS_PRODUCTION, responses, error_log>>

diffusionState == <<diffusion>>

modeState == <<environ, file_call, file_calls>>

keystreamState == <<arrays, generator, keystreams, generated>>

redisState == <<connected, redis_keys, redis_call, wins, redis_calls>>

sanityState == <<sanity>>

vars == <<now, lockState, sessionState, authState, tokenState, hlsState, cipherState, progressState, loginState, waitState, errorState, diffusionState, modeState, keystreamState, redisState, sanityState>>

(* what each component leaves alone *)
outsideLock == <<sessionState, authState, tokenState, hlsState, cipherState, progressState, loginState, waitState, errorState, diffusionState, modeState, keystreamState, redisState, sanityState>>
outsideSession == <<lockState, authState, tokenState, hlsState, cipherState, progressState, loginState, waitState, errorState, diffusionState, modeState, keystreamState, redisState, sanityState>>
outsideAuth == <<lockState, sessionState, tokenState, hlsState, cipherState, progressState, loginState, waitState, errorState, diffusionState, modeState, keystreamState, redisState, sanityState>>
outsideToken == <<lockState, sessionState, authState, hlsState, cipherState, progressState, loginState, waitState, errorState, diffusionState, modeState, keystreamState, redisState, sanityState>>
outsideHls == <<lockState, sessionState, authState, tokenState, cipherState, progressState, loginState, waitState, errorState, diffusionState, modeState, keystreamState, redisState, sanityState>>
outsideCipher == <<lockState, sessionState, authState, tokenState, hlsState, progressState, loginState, waitState, errorState, diffusionState, modeState, keystreamState, redisState, sanityState>>
outsideProgress == <<lockState, sessionState, authState, tokenState, hlsState, cipherState, loginState, waitState, errorState, diffusionState, modeState, keystreamState, redisState, sanityState>>
outsideLogin == <<lockState, authState, tokenState, hlsState, cipherState, progressState, waitState, errorState, diffusionState, modeState, keystreamState, redisState, sanityState>>
outsideWait == <<lockState, sessionState, authState, tokenState, hlsState, cipherState, progressState, loginState, errorState, diffusionState, modeState, keystreamState, redisState, sanityState>>
outsideError == <<lockState, sessionState, authState, tokenState, hlsState, cipherState, progressState, loginState, waitState, diffusionState, modeState, keystreamState, redisState, sanityState>>
outsideDiffusion == <<lockState, sessionState, authState, tokenState, hlsState, progressState, loginState, waitState, errorState, modeState, keystreamState, redisState, sanityState>>
outsideMode == <<lockState, sessionState, authState, tokenState, hlsState, progressState, loginState, waitState, errorState, diffusionState, keystreamState, redisState, sanityState>>
outsideKeystream == <<lockState, sessionState, authState, tokenState, hlsState, progressState, loginState, waitState, errorState, diffusionState, modeState, redisState, sanityState>>
outsideRedis == <<lockState, sessionState, authState, tokenState, hlsState, cipherState, progressState, loginState, waitState, errorState, diffusionState, modeState, keystreamState, sanityState>>
outsideSanity == <<lockState, sessionState, authState, tokenState, hlsState, progressState, loginState, waitState, errorState, diffusionState, modeState, keystreamState, redisState>>

EmptyMap == [k \in {} |-> 0]

----------------------------------------------------------------------------
(* Helpers of FileLockManager *)

KeyOf(c) == LockKey(arg[c].track, arg[c].op)

Active(c) == pc[c] # "idle"

_is_lock_expired(lock_data) == now > lock_data.expires_at

(* the cap check counting one track too few *)
CountOneShort(up, u) ==
    IF u \in DOMAIN up THEN Cardinality(up[u]) - 1 ELSE 0

_get_user_processing_count(up, u) ==
    IF u \in DOMAIN up THEN Cardinality(up[u]) ELSE 0

(* _user_processing after _release_processing_lock has run for every key  *)
(* of ks: each record's track_id is discarded from its owner's set and a   *)
(* set that became empty is deleted                                        *)
DiscardTracks(locks, up, ks) ==
    LET gone(u) == {locks[k].track_id : k \in {j \in ks : locks[j].user_id = u}}
        left(u) == up[u] \ gone(u)
    IN  [u \in {v \in DOMAIN up : left(v) # {}} |-> left(u)]

(* a release that forgets to delete the record *)
ReleaseKeepsRecord(locks, up, ks) ==
    [locks |-> locks, up |-> DiscardTracks(locks, up, ks \cap DOMAIN locks)]

(* _release_processing_lock for the keys ks that have a record *)
ReleaseKeys(locks, up, ks) ==
    LET present == ks \cap DOMAIN locks
    IN  [locks |-> [k \in DOMAIN locks \ present |-> locks[k]],
         up    |-> DiscardTracks(locks, up, present)]

_release_processing_lock(locks, up, k) == ReleaseKeys(locks, up, {k})

SweepDue == ~(now - last_cleanup < cleanup_interval)

(* _cleanup_expired_locks: the stores after the lazy sweep *)
_cleanup_expired_locks(locks, up) ==
    IF SweepDue
    THEN ReleaseKeys(locks, up, {k \in DOMAIN locks : _is_lock_expired(locks[k])})
    ELSE [locks |-> locks, up |-> up]

----------------------------------------------------------------------------
(* asyncio.Lock *)

FreshLock == [locked |-> FALSE, waiters |-> <<>>]

RemoveWaiter(q, c) == SelectSeq(q, LAMBDA d : d # c)

(* Lock._wake_up_first: the future of the first waiter is resolved *)
WakeUpFirst(q, p) ==
    IF q # <<>> /\ p[q[1]] = "queued" THEN [p EXCEPT ![q[1]] = "woken"] ELSE p

----------------------------------------------------------------------------
(* acquire_processing_lock, step by step.  An attempt ends with one of the *)
(* outcomes "exited" (the scope was entered and left), "HTTP_429",         *)
(* "UnboundLocalError" or "CancelledError".                                *)

(* Lines 50-88: sweep, per-user cap, duplicate check, reclaim of an        *)
(* expired record.  HTTPException and status are bound by the import       *)
(* statement of the 429 branch only (line 57), which makes them local      *)
(* names of the function: the raise statements of lines 69 and 79 find     *)
(* them unbound and raise UnboundLocalError.                               *)
Begin(c, t, u, o) ==
    /\ pc[c] = "idle"
    /\ attempts < MaxAttempts
    /\ attempts' = attempts + 1
    /\ LET k == LockKey(t, o)
           swept == _cleanup_expired_locks(processing_locks, user_processing)
           reclaimed == _release_processing_lock(swept.locks, swept.up, k)
       IN
        /\ last_cleanup' = IF SweepDue THEN now ELSE last_cleanup
        /\ IF _get_user_processing_count(swept.up, u) >= max_concurrent_per_user
           THEN /\ outcome' = Finished("HTTP_429", Request(t, u, o))
                /\ processing_locks' = swept.locks
                /\ user_processing' = swept.up
                /\ UNCHANGED <<pc, arg, beaten>>
           ELSE IF k \in DOMAIN swept.locks
                   /\ (swept.locks[k].user_id = u \/ ~_is_lock_expired(swept.locks[k]))
           THEN /\ outcome' = Finished("UnboundLocalError", Request(t, u, o))
                /\ processing_locks' = swept.locks
                /\ user_processing' = swept.up
                /\ UNCHANGED <<pc, arg, beaten>>
           ELSE /\ processing_locks' = reclaimed.locks
                /\ user_processing' = reclaimed.up
                /\ pc' = [pc EXCEPT ![c] = "pending"]
                /\ arg' = [arg EXCEPT ![c] = Request(t, u, o)]
                /\ beaten' = [beaten EXCEPT ![c] =
                       \E d \in Callers \ {c} : pc[d] = "inscope" /\ KeyOf(d) = k]
                /\ UNCHANGED outcome
    /\ UNCHANGED <<now, file_locks>>
    /\ UNCHANGED outsideLock

(* Lines 94-109: the record is written and the track joins the user's set *)
WriteRecord(locks, up, c) ==
    LET t == arg[c].track
        u == arg[c].user
        k == KeyOf(c)
        lock_data == [track_id |-> t, user_id |-> u, operation |-> arg[c].op,
                      expires_at |-> now + lock_timeout_minutes * 60,
                      process_id |-> c]
    IN  [locks |-> [j \in DOMAIN locks \cup {k} |-> IF j = k THEN lock_data ELSE locks[j]],
         up    |-> [v \in DOMAIN up \cup {u} |->
                       IF v = u THEN (IF u \in DOMAIN up THEN up[u] ELSE {}) \cup {t}
                                ELSE up[v]]]

(* Lines 94-114 seen from the callers: c is inside the guarded scope, and  *)
(* every other attempt in progress on the same key has lost the race       *)
EnterScope(c) ==
    /\ LET w == WriteRecord(processing_locks, user_processing, c)
       IN  /\ processing_locks' = w.locks
           /\ user_processing' = w.up
    /\ beaten' = [d \in Callers |->
                     IF d # c /\ Active(d) /\ KeyOf(d) = KeyOf(c) THEN TRUE ELSE beaten[d]]
    /\ pc' = [pc EXCEPT ![c] = "inscope"]
    /\ UNCHANGED outcome

(* asyncio.Lock.acquire takes the lock at once when it is free and nobody  *)
(* waits for it                                                            *)
LockIsFree(l) == ~l.locked /\ l.waiters = <<>>

(* Lines 92-114, asyncio.Lock.acquire called through wait_for: the lock is *)
(* taken at once when it is free, and the caller goes on into the scope;   *)
(* else the caller joins the waiter queue                                  *)
TryAcquire(c) ==
    /\ pc[c] = "pending"
    /\ LET t == arg[c].track
           l == file_locks[t]
       IN  IF LockIsFree(l)
           THEN /\ file_locks' = [file_locks EXCEPT ![t].locked = TRUE]
                /\ EnterScope(c)
           ELSE /\ file_locks' = [file_locks EXCEPT ![t].waiters = Append(l.waiters, c)]
                /\ pc' = [pc EXCEPT ![c] = "queued"]
                /\ UNCHANGED <<processing_locks, user_processing, outcome, beaten>>
    /\ UNCHANGED <<now, last_cleanup, arg, attempts>>
    /\ UNCHANGED outsideLock

(* Lines 92-114 for a waiter whose future was resolved: it leaves the      *)
(* queue, sets the lock and goes on into the scope                         *)
Resume(c) ==
    /\ pc[c] = "woken"
    /\ LET t == arg[c].track
       IN  file_locks' = [file_locks EXCEPT ![t] =
                [locked |-> TRUE, waiters |-> RemoveWaiter(@.waiters, c)]]
    /\ EnterScope(c)
    /\ UNCHANGED <<now, last_cleanup, arg, attempts>>
    /\ UNCHANGED outsideLock

(* an exit path that leaves the mutex locked *)
FinallyKeepsMutex(l, p) == [lock |-> l, pc |-> p]

(* Lines 125-128: if file_lock.locked(): file_lock.release() *)
FinallyRelease(l, p) ==
    IF l.locked
    THEN [lock |-> [l EXCEPT !.locked = FALSE], pc |-> WakeUpFirst(l.waiters, p)]
    ELSE [lock |-> l, pc |-> p]

(* Lines 113-128: the guarded scope is left.  Whether the body returned,   *)
(* raised or was cancelled, the generator resumes at the yield of line 114 *)
(* and runs the finally clauses of lines 115-117 and 125-128.              *)
Exit(c) ==
    /\ pc[c] = "inscope"
    /\ LET t == arg[c].track
           rel == _release_processing_lock(processing_locks, user_processing, KeyOf(c))
           fin == FinallyRelease(file_locks[t], [pc EXCEPT ![c] = "idle"])
       IN
        /\ processing_locks' = rel.locks
        /\ user_processing' = rel.up
        /\ file_locks' = [file_locks EXCEPT ![t] = fin.lock]
        /\ pc' = fin.pc
    /\ outcome' = Finished("exited", arg[c])
    /\ arg' = [arg EXCEPT ![c] = NoArg]
    /\ beaten' = [beaten EXCEPT ![c] = FALSE]
    /\ UNCHANGED <<now, last_cleanup, attempts>>
    /\ UNCHANGED outsideLock

AbortKinds == {"timeout", "cancel"}

(* Lines 92 and 119-128: the wait for the mutex ends by the timeout of     *)
(* wait_for or by cancellation.  Lock.acquire leaves the queue (and passes *)
(* a wake-up on when the lock is free); line 121 finds HTTPException       *)
(* unbound; the finally clause releases the mutex whenever it is locked.   *)
Abort(c, why) ==
    /\ pc[c] \in {"pending", "queued", "woken"}
    /\ LET t == arg[c].track
           l == file_locks[t]
           q == RemoveWaiter(l.waiters, c)
           p0 == [pc EXCEPT ![c] = "idle"]
           p1 == IF pc[c] \in {"queued", "woken"} /\ ~l.locked
                 THEN WakeUpFirst(q, p0) ELSE p0
           fin == FinallyRelease([l EXCEPT !.waiters = q], p1)
       IN
        /\ file_locks' = [file_locks EXCEPT ![t] = fin.lock]
        /\ pc' = fin.pc
    /\ outcome' = Finished(IF why = "timeout" THEN "UnboundLocalError" ELSE "CancelledError",
                           arg[c])
    /\ arg' = [arg EXCEPT ![c] = NoArg]
    /\ beaten' = [beaten EXCEPT ![c] = FALSE]
    /\ UNCHANGED <<now, processing_locks, user_processing, last_cleanup, attempts>>
    /\ UNCHANGED outsideLock

(* the wall clock advances *)
Advance(t) ==
    /\ t > now
    /\ now' = t
    /\ UNCHANGED <<processing_locks, user_processing, file_locks, last_cleanup,
                   pc, arg, outcome, beaten, attempts>>
    /\ UNCHANGED outsideLock

LockNext ==
    \/ \E c \in Callers : \E r \in RequestsOf(c) : Begin(c, r.track, r.user, r.op)
    \/ \E c \in Callers : TryAcquire(c)
    \/ \E c \in Callers : Resume(c)
    \/ \E c \in Callers : Exit(c)
    \/ \E c \in Callers, why \in AbortKinds : Abort(c, why)
    \/ \E t \in ClockReadings : Advance(t)

----------------------------------------------------------------------------
(* Vocabulary of the properties of the lock manager *)

InScope(c) == pc[c] = "inscope"

OwnedKeys(u) == {k \in DOMAIN processing_locks : processing_locks[k].user_id = u}

ProcessingSet(u) == IF u \in DOMAIN user_processing THEN user_processing[u] ELSE {}

(* the user's processing set after the step *)
ProcessingSetNext(u) == IF u \in DOMAIN user_processing' THEN user_processing'[u] ELSE {}

ReqKey(r) == LockKey(r.track, r.op)

(* c leaves the guarded scope in this step *)
LeavesScope(c) == pc[c] = "inscope" /\ pc'[c] = "idle"

(* c's attempt ends in this step without having entered the scope *)
GivesUp(c) == pc[c] \in {"pending", "queued", "woken"} /\ pc'[c] = "idle"

(* the records the lazy sweep of this call removes *)
SweptKeys ==
    IF now - last_cleanup >= cleanup_interval
    THEN {k \in DOMAIN processing_locks : now > processing_locks[k].expires_at}
    ELSE {}

(* the user's processing set as the sweep of this call leaves it *)
KeptSet(u) ==
    ProcessingSet(u) \ {processing_locks[k].track_id :
                           k \in {j \in SweptKeys : processing_locks[j].user_id = u}}

----------------------------------------------------------------------------
(* C1: of the attempts that run concurrently for one key exactly one       *)
(* enters the guarded scope; an attempt that overlaps an attempt which     *)
(* entered never enters the scope itself and ends with Conflict (409) or   *)
(* Timeout (408), unless its caller cancels it.                            *)
C1_ExactlyOneEnters ==
    /\ [](\A c \in Callers : beaten[c] => ~InScope(c))
    /\ [][\A c \in Callers :
            (beaten[c] /\ GivesUp(c)) =>
                outcome'.kind \in {"HTTP_409", "HTTP_408", "CancelledError"}]_vars

(* C2: at most one caller is inside the guarded scope for one track_id.    *)
C2_OneHolderPerTrack ==
    \A t \in Tracks : Cardinality({c \in Callers : InScope(c) /\ arg[c].track = t}) <= 1

(* C3: no user owns more than max_concurrent_per_user lock records.        *)
C3_UserCap ==
    \A u \in Users : Cardinality(OwnedKeys(u)) <= max_concurrent_per_user

(* C4 as stated: a further acquire by a user who owns                      *)
(* max_concurrent_per_user records fails with 429 and leaves the records,  *)
(* the processing sets and the mutexes unchanged.                          *)
C4_CapRejectsUnchanged ==
    [][\A c \in Callers : \A r \in RequestsOf(c) :
          (Cardinality(OwnedKeys(r.user)) >= max_concurrent_per_user
              /\ Begin(c, r.track, r.user, r.op)) =>
             /\ outcome' = Finished("HTTP_429", r)
             /\ UNCHANGED <<processing_locks, user_processing, file_locks>>]_vars

(* C4 amended: when the user's processing set still holds                  *)
(* max_concurrent_per_user track_ids after the lazy sweep at the start of  *)
(* the call, the call fails with 429; the records and the processing sets  *)
(* are those the sweep left, and the mutexes and the other callers are     *)
(* unchanged.                                                              *)
C4_CapRejectsAfterSweep ==
    [][\A c \in Callers : \A r \in RequestsOf(c) :
          (Cardinality(KeptSet(r.user)) >= max_concurrent_per_user
              /\ Begin(c, r.track, r.user, r.op)) =>
             /\ outcome' = Finished("HTTP_429", r)
             /\ DOMAIN processing_locks' = DOMAIN processing_locks \ SweptKeys
             /\ \A k \in DOMAIN processing_locks' : processing_locks'[k] = processing_locks[k]
             /\ \A u \in Users : ProcessingSetNext(u) = KeptSet(u)
             /\ UNCHANGED <<file_locks, pc>>]_vars

(* a request was refused with 429 while its user had three tracks locked *)
C4_Witness ==
    /\ outcome.kind = "HTTP_429"
    /\ Cardinality(ProcessingSet(outcome.req.user)) = max_concurrent_per_user

(* C5: when the holder leaves the guarded scope the key has no record any  *)
(* more, and an acquire for a key without a record by a user below the cap *)
(* is admitted and enters the scope as soon as it gets the track's mutex,  *)
(* with a record of its own.                                               *)
C5_AcquirableAfterRelease ==
    /\ [][\A c \in Callers : LeavesScope(c) => KeyOf(c) \notin DOMAIN processing_locks']_vars
    /\ [][\A c \in Callers : \A r \in RequestsOf(c) :
            (ReqKey(r) \notin DOMAIN processing_locks
                /\ Cardinality(ProcessingSet(r.user)) < max_concurrent_per_user
                /\ Begin(c, r.track, r.user, r.op)) =>
               (pc'[c] = "pending" /\ arg'[c] = r)]_vars
    /\ [][\A c \in Callers :
            ((pc[c] = "pending" /\ ~file_locks[arg[c].track].locked
                                /\ file_locks[arg[c].track].waiters = <<>>
                                /\ pc'[c] # pc[c] /\ pc'[c] # "idle")
               \/ (pc[c] = "woken" /\ pc'[c] # pc[c] /\ pc'[c] # "idle")) =>
               /\ InScope(c)'
               /\ KeyOf(c) \in DOMAIN processing_locks'
               /\ processing_locks'[KeyOf(c)].user_id = arg[c].user
               /\ processing_locks'[KeyOf(c)].process_id = c]_vars

(* the key of the attempt that left the scope last is held again, by       *)
(* another caller                                                          *)
C5_Witness ==
    /\ outcome.kind = "exited"
    /\ ReqKey(outcome.req) \in DOMAIN processing_locks
    /\ \E c \in Callers : InScope(c) /\ KeyOf(c) = ReqKey(outcome.req)
                                      /\ processing_locks[KeyOf(c)].process_id = c

(* C6: an acquire for a key that has an unexpired record, by a user below  *)
(* the cap, fails with Conflict (409) whoever owns the record, and leaves  *)
(* the record, its owner's processing set and the mutexes unchanged.       *)
C6_ConflictOnLiveRecord ==
    [][\A c \in Callers : \A r \in RequestsOf(c) :
          (ReqKey(r) \in DOMAIN processing_locks
              /\ ~(now > processing_locks[ReqKey(r)].expires_at)
              /\ Cardinality(ProcessingSet(r.user)) < max_concurrent_per_user
              /\ Begin(c, r.track, r.user, r.op)) =>
             /\ outcome' = Finished("HTTP_409", r)
             /\ ReqKey(r) \in DOMAIN processing_locks'
             /\ processing_locks'[ReqKey(r)] = processing_locks[ReqKey(r)]
             /\ ProcessingSetNext(processing_locks[ReqKey(r)].user_id)
                    = ProcessingSet(processing_locks[ReqKey(r)].user_id)
             /\ UNCHANGED <<file_locks, pc>>]_vars

(* C28: an acquire for a key whose record is expired, by a user below the  *)
(* cap, removes the record without raising an error and goes on to acquire *)
(* the track's mutex, whether the record belongs to the caller's user or   *)
(* to another user.                                                        *)
C28_ExpiredReclaimed ==
    [][\A c \in Callers : \A r \in RequestsOf(c) :
          (ReqKey(r) \in DOMAIN processing_locks
              /\ now > processing_locks[ReqKey(r)].expires_at
              /\ Cardinality(ProcessingSet(r.user)) < max_concurrent_per_user
              /\ Begin(c, r.track, r.user, r.op)) =>
             /\ ReqKey(r) \notin DOMAIN processing_locks'
             /\ pc'[c] = "pending" /\ arg'[c] = r
             /\ outcome' = outcome]_vars

(* the callers other than c that are inside the guarded scope for track t, *)
(* each holding the mutex of t it took on entering                         *)
OtherHolders(c, t) == {d \in Callers \ {c} : InScope(d) /\ arg[d].track = t}

(* C37: a caller that leaves the guarded scope removes no record created   *)
(* by another caller and does not unlock the track's mutex while another   *)
(* caller is inside the scope for that track; a caller whose wait for the  *)
(* mutex ends by timeout or cancellation does not unlock the mutex while   *)
(* another caller is inside the scope for that track.                      *)
C37_ReleasesOnlyItsOwn ==
    [][\A c \in Callers :
          /\ LeavesScope(c) =>
                /\ \A k \in DOMAIN processing_locks :
                       processing_locks[k].process_id # c =>
                          k \in DOMAIN processing_locks'
                             /\ processing_locks'[k] = processing_locks[k]
                /\ OtherHolders(c, arg[c].track) # {} => file_locks'[arg[c].track].locked
          /\ (GivesUp(c) /\ OtherHolders(c, arg[c].track) # {}
                         /\ file_locks[arg[c].track].locked)
                => file_locks'[arg[c].track].locked]_vars

(* C38: the processing set of every user is exactly the set of track_ids   *)
(* of the records the user owns, and no empty set is stored.               *)
C38_SetMatchesRecords ==
    /\ \A u \in Users :
          ProcessingSet(u) = {processing_locks[k].track_id : k \in OwnedKeys(u)}
    /\ \A u \in DOMAIN user_processing : user_processing[u] # {}

(* C7: whenever the guarded scope is left (normally, by an exception or by *)
(* cancellation) the key has no record any more, the track of the removed  *)
(* record is out of its owner's processing set, no other record is touched *)
(* and the track's mutex is unlocked; when the key had no record, the      *)
(* records and the processing sets are unchanged.                          *)
C7_ReleaseOnEveryExit ==
    [][\A c \in Callers :
          LeavesScope(c) =>
             LET k == KeyOf(c) IN
             /\ outcome' = Finished("exited", arg[c])
             /\ k \notin DOMAIN processing_locks'
             /\ \A j \in DOMAIN processing_locks \ {k} :
                    j \in DOMAIN processing_locks' /\ processing_locks'[j] = processing_locks[j]
             /\ ~file_locks'[arg[c].track].locked
             /\ IF k \in DOMAIN processing_locks
                THEN processing_locks[k].track_id
                        \notin ProcessingSetNext(processing_locks[k].user_id)
                ELSE UNCHANGED <<processing_locks, user_processing>>]_vars

(* a scope was left; its key has no record and its track's mutex is free   *)
C7_Witness ==
    /\ outcome.kind = "exited"
    /\ ReqKey(outcome.req) \notin DOMAIN processing_locks
    /\ ~file_locks[outcome.req.track].locked

----------------------------------------------------------------------------
(***************************************************************************)
(* Session manager (app/core/session_manager.py).  Its methods are         *)
(* synchronous: each call is one atomic step of the event loop.            *)
(***************************************************************************)

(* Bounds of the session-manager model *)
(* two workloads are examined: many logins with few other calls, and few   *)
(* logins with many other calls                                            *)
MaxSessions == 7
MaxCalls == 1
FewSessions == 2
ManyCalls == 3

Workloads == {[sessions |-> MaxSessions, calls |-> MaxCalls],
              [sessions |-> FewSessions, calls |-> ManyCalls]}

(* Program constants *)
max_sessions_per_user == 5
session_cleanup_interval == 300
renewal_window_minutes == 30
audit_retention_hours == 24

(* the configured values of ACCESS_TOKEN_EXPIRE_MINUTES examined: the     *)
(* access-token lifetime of 30 minutes, and one longer than the audit      *)
(* retention of revoked sessions                                           *)
ACCESS_TOKEN_EXPIRE_MINUTES == {30, 2 * audit_retention_hours * 60}

SessionIds == 1..MaxSessions

(* client addresses are strings, written as sequences of characters:       *)
(* 10.0.0.1, 10.0.0.2, 10.0.1.1, fe80::1, and the IPv4-mapped IPv6         *)
(* addresses ::ffff:10.0.0.1 and ::ffff:10.0.0.2 that a dual-stack socket  *)
(* reports for an IPv4 peer                                                *)
HomeIP == <<"1", "0", ".", "0", ".", "0", ".", "1">>
NeighbourIP == <<"1", "0", ".", "0", ".", "0", ".", "2">>
OtherNetIP == <<"1", "0", ".", "0", ".", "1", ".", "1">>
LinkLocalIP == <<"f", "e", "8", "0", ":", ":", "1">>
MappedPrefix == <<":", ":", "f", "f", "f", "f", ":">>
MappedIP == MappedPrefix \o HomeIP
MappedNeighbourIP == MappedPrefix \o NeighbourIP
ClientIPs == {HomeIP, NeighbourIP, OtherNetIP, LinkLocalIP, MappedIP, MappedNeighbourIP}

(* the address from which each user logs in *)
ClientOf(u) == IF u = "u2" THEN MappedIP ELSE HomeIP

NoTime == -1

(* the readings of the wall clock: start; the last instant at which a     *)
(* session created at 0 with a lifetime of 30 minutes is alive (it is      *)
(* inside the renewal window then); and an instant more than 24 hours      *)
(* after that, at which every session with a lifetime of 30 minutes is     *)
(* expired and a revocation made before is older than the retention        *)
SessionClockReadings ==
    {0, renewal_window_minutes * 60,
        renewal_window_minutes * 60 + audit_retention_hours * 3600 + 1}

----------------------------------------------------------------------------
(* the three stores of the session manager, passed through the helpers *)
Stores(a, r, us) == [active |-> a, revoked |-> r, index |-> us]

(* a revocation that marks the session inactive but does not record the id *)
RevokeUnrecorded(st, sid, reason) ==
    IF sid \in DOMAIN st.active
    THEN Stores([st.active EXCEPT ![sid].revoked_at = now, ![sid].revoke_reason = reason],
                st.revoked, st.index)
    ELSE st

(* revoke_session *)
revoke_session(st, sid, reason) ==
    IF sid \in DOMAIN st.active
    THEN LET u == st.active[sid].user_id
         IN  Stores([st.active EXCEPT ![sid].is_active = FALSE,
                                      ![sid].revoked_at = now,
                                      ![sid].revoke_reason = reason],
                    st.revoked \cup {sid},
                    IF u \in DOMAIN st.index
                    THEN [st.index EXCEPT ![u] = @ \ {sid}]
                    ELSE st.index)
    ELSE st

(* revoke_session applied to each id of a set; the calls commute *)
RECURSIVE RevokeAll(_, _, _)
RevokeAll(st, sids, reason) ==
    IF sids = {} THEN st
    ELSE LET sid == CHOOSE x \in sids : TRUE
         IN  RevokeAll(revoke_session(st, sid, reason), sids \ {sid}, reason)

(* the filter of _get_user_sessions *)
IsLive(st, sid) ==
    /\ sid \in DOMAIN st.active
    /\ sid \notin st.revoked
    /\ st.active[sid].is_active
    /\ now <= st.active[sid].expires_at

(* _get_user_sessions: the set it returns *)
LiveOf(st, u) ==
    IF u \in DOMAIN st.index THEN {sid \in st.index[u] : IsLive(st, sid)} ELSE {}

(* _get_user_sessions: the stores it leaves (the filtered set is written back) *)
_get_user_sessions(st, u) ==
    IF u \in DOMAIN st.index
    THEN [st EXCEPT !.index = [st.index EXCEPT ![u] = LiveOf(st, u)]]
    ELSE st

SessionSweepDue == ~(now - session_cleanup < session_cleanup_interval)

(* a sweep whose purge deletes the records and keeps the ids in the        *)
(* revoked set                                                             *)
PurgeKeepsRevoked(st) ==
    IF SessionSweepDue
    THEN LET expired == {sid \in DOMAIN st.active : st.active[sid].expires_at < now}
             st1 == RevokeAll(st, expired, "expired")
             old_revoked == {sid \in st1.revoked \cap DOMAIN st1.active :
                               /\ st1.active[sid].revoked_at # NoTime
                               /\ now - st1.active[sid].revoked_at
                                      > audit_retention_hours * 3600}
         IN  Stores([sid \in DOMAIN st1.active \ old_revoked |-> st1.active[sid]],
                    st1.revoked,
                    st1.index)
    ELSE st

(* _cleanup_expired_sessions: every stored session past its expires_at is  *)
(* revoked (again, if it was revoked before), then the revoked sessions    *)
(* whose revoked_at is more than 24 hours old are purged                   *)
_cleanup_expired_sessions(st) ==
    IF SessionSweepDue
    THEN LET expired == {sid \in DOMAIN st.active : st.active[sid].expires_at < now}
             st1 == RevokeAll(st, expired, "expired")
             old_revoked == {sid \in st1.revoked \cap DOMAIN st1.active :
                               /\ st1.active[sid].revoked_at # NoTime
                               /\ now - st1.active[sid].revoked_at
                                      > audit_retention_hours * 3600}
         IN  Stores([sid \in DOMAIN st1.active \ old_revoked |-> st1.active[sid]],
                    st1.revoked \ old_revoked,
                    st1.index)
    ELSE st

(* the limit check written with > *)
OverSessionLimit(n) == n > max_sessions_per_user

(* line 47: len(current_sessions) >= self.max_sessions_per_user *)
AtSessionLimit(n) == n >= max_sessions_per_user

(* created_at is datetime.now() at microsecond resolution, which differs   *)
(* from one call of create_session to the next.  The model's clock is      *)
(* coarse: a creation instant is the pair of the clock reading and the     *)
(* rank of the call among all creations, compared lexicographically.       *)
NotAfter(a, b) == a[1] < b[1] \/ (a[1] = b[1] /\ a[2] <= b[2])

(* an eviction that picks the newest session *)
Newest(st, sids) ==
    CHOOSE sid \in sids :
        \A other \in sids : NotAfter(st.active[other].created_at, st.active[sid].created_at)

(* line 49: min(current_sessions, key=created_at) *)
Oldest(st, sids) ==
    CHOOSE sid \in sids :
        \A other \in sids : NotAfter(st.active[sid].created_at, st.active[other].created_at)

(* str.split("."): the fields between the dots, empty fields included *)
RECURSIVE split(_)
split(str) ==
    IF \E i \in 1..Len(str) : str[i] = "."
    THEN LET i == CHOOSE j \in 1..Len(str) :
                      str[j] = "." /\ \A k \in 1..(j - 1) : str[k] # "."
         IN  <<SubSeq(str, 1, i - 1)>> \o split(SubSeq(str, i + 1, Len(str)))
    ELSE <<str>>

(* lines 119-132 of validate_session: the address check *)
IpAccepted(stored, current, require_ip_match) ==
    IF require_ip_match /\ stored # current
    THEN LET session_ip_parts == split(stored)
             current_ip_parts == split(current)
         IN  /\ Len(session_ip_parts) = 4 /\ Len(current_ip_parts) = 4
             /\ SubSeq(session_ip_parts, 1, 3) = SubSeq(current_ip_parts, 1, 3)
    ELSE TRUE

Here == Stores(active_sessions, revoked_sessions, user_sessions)

Install(st) ==
    /\ active_sessions' = st.active
    /\ revoked_sessions' = st.revoked
    /\ user_sessions' = st.index

(* the ids revoked so far: those recorded before and those that carry a   *)
(* revoked_at stamp now                                                    *)
NewlyRevoked(st) ==
    ever_revoked \cup {sid \in DOMAIN st.active : st.active[sid].revoked_at # NoTime}

----------------------------------------------------------------------------
(* the session manager after construction, before any call *)
SessionManagerInit ==
    /\ now = 0
    /\ active_sessions = EmptyMap
    /\ revoked_sessions = {}
    /\ user_sessions = EmptyMap
    /\ session_cleanup = 0
    /\ next_sid = 1
    /\ validation = "none yet"
    /\ ever_revoked = {}
    /\ calls = 0
    /\ workload \in Workloads
    /\ session_timeout_minutes \in ACCESS_TOKEN_EXPIRE_MINUTES

(* create_session *)
create_session(u, ip) ==
    /\ next_sid <= workload.sessions
    /\ \E st0 \in {_cleanup_expired_sessions(Here)} :
       \E st1 \in {_get_user_sessions(st0, u)} :
       \E st2 \in {IF AtSessionLimit(Cardinality(LiveOf(st0, u)))
                    THEN revoke_session(st1, Oldest(st1, LiveOf(st0, u)),
                                        "session_limit_exceeded")
                    ELSE st1} :
             LET session_id == next_sid
                 session_data == [user_id |-> u, client_ip |-> ip,
                                  created_at |-> <<now, session_id>>, last_accessed |-> now,
                                  expires_at |-> now + session_timeout_minutes * 60,
                                  access_count |-> 0, is_active |-> TRUE,
                                  revoked_at |-> NoTime, revoke_reason |-> "none"]
                 st3 == Stores([sid \in DOMAIN st2.active \cup {session_id} |->
                                   IF sid = session_id THEN session_data ELSE st2.active[sid]],
                               st2.revoked,
                               [v \in DOMAIN st2.index \cup {u} |->
                                   IF v = u
                                   THEN (IF u \in DOMAIN st2.index THEN st2.index[u] ELSE {})
                                            \cup {session_id}
                                   ELSE st2.index[v]])
             IN  /\ Install(st3)
                 /\ ever_revoked' = NewlyRevoked(st3)
    /\ session_cleanup' = IF SessionSweepDue THEN now ELSE session_cleanup
    /\ next_sid' = next_sid + 1
    /\ UNCHANGED <<now, validation, calls, workload, session_timeout_minutes>>
    /\ UNCHANGED outsideSession

(* validate_session *)
(* an expiry check that never fires *)
NeverExpired(session_data) == FALSE

(* line 109: datetime.now(timezone.utc) > session_data["expires_at"] *)
Expired(session_data) == now > session_data.expires_at

(* a renewal at every successful validation *)
SlideAlways(expires_at) == now + session_timeout_minutes * 60

(* lines 146-147: the sliding renewal *)
SlideExpiry(expires_at) ==
    IF expires_at - now < renewal_window_minutes * 60
    THEN now + session_timeout_minutes * 60
    ELSE expires_at

validate_session(sid, ip, require_ip_match) ==
    /\ calls < workload.calls
    /\ calls' = calls + 1
    /\ IF sid \notin DOMAIN active_sessions \/ sid \in revoked_sessions
       THEN /\ validation' = "None"
            /\ UNCHANGED <<active_sessions, revoked_sessions, user_sessions, ever_revoked>>
       ELSE LET session_data == active_sessions[sid] IN
            IF Expired(session_data)
            THEN LET st == revoke_session(Here, sid, "expired")
                 IN  /\ Install(st)
                     /\ ever_revoked' = NewlyRevoked(st)
                     /\ validation' = "None"
            ELSE IF ~session_data.is_active
                    \/ ~IpAccepted(session_data.client_ip, ip, require_ip_match)
            THEN /\ validation' = "None"
                 /\ UNCHANGED <<active_sessions, revoked_sessions, user_sessions, ever_revoked>>
            ELSE /\ active_sessions' = [active_sessions EXCEPT ![sid] =
                        [@ EXCEPT !.last_accessed = now,
                                  !.access_count = @ + 1,
                                  !.expires_at = SlideExpiry(@)]]
                 /\ validation' = "data"
                 /\ UNCHANGED <<revoked_sessions, user_sessions, ever_revoked>>
    /\ UNCHANGED <<now, session_cleanup, next_sid, workload, session_timeout_minutes>>
    /\ UNCHANGED outsideSession

RevokeReasons == {"manual"}

(* revoke_session called by a client of the session manager *)
RevokeSession(sid, reason) ==
    /\ calls < workload.calls
    /\ calls' = calls + 1
    /\ LET st == revoke_session(Here, sid, reason)
       IN  /\ Install(st)
           /\ ever_revoked' = NewlyRevoked(st)
    /\ UNCHANGED <<now, session_cleanup, next_sid, validation, workload,
                   session_timeout_minutes>>
    /\ UNCHANGED outsideSession

(* revoke_user_sessions; except_session = 0 stands for None *)
revoke_user_sessions(u, except_session) ==
    /\ calls < workload.calls
    /\ calls' = calls + 1
    /\ LET st0 == _get_user_sessions(Here, u)
           st1 == RevokeAll(st0, LiveOf(Here, u) \ {except_session}, "user_logout_all")
       IN  /\ Install(st1)
           /\ ever_revoked' = NewlyRevoked(st1)
    /\ UNCHANGED <<now, session_cleanup, next_sid, validation, workload,
                   session_timeout_minutes>>
    /\ UNCHANGED outsideSession

(* get_user_session_count: the count is read, the filtered index is stored *)
get_user_session_count(u) ==
    /\ Install(_get_user_sessions(Here, u))
    /\ UNCHANGED <<now, session_cleanup, next_sid, validation, ever_revoked, calls,
                   workload, session_timeout_minutes>>
    /\ UNCHANGED outsideSession

(* the wall clock advances *)
SessionAdvance(t) ==
    /\ t > now
    /\ now' = t
    /\ UNCHANGED <<active_sessions, revoked_sessions, user_sessions, session_cleanup,
                   next_sid, validation, ever_revoked, calls, workload,
                   session_timeout_minutes>>
    /\ UNCHANGED outsideSession

(* the users who log in: u2 opens the first session, u1 all the others *)
NewUsers == IF next_sid = 1 THEN {"u2"} ELSE {"u1"}

SessionNext ==
    \/ \E u \in NewUsers : create_session(u, ClientOf(u))
    \/ \E sid \in SessionIds, ip \in ClientIPs, m \in BOOLEAN : validate_session(sid, ip, m)
    \/ \E sid \in SessionIds, reason \in RevokeReasons : RevokeSession(sid, reason)
    \/ \E u \in Users, x \in {0} \cup SessionIds : revoke_user_sessions(u, x)
    \/ \E u \in Users : get_user_session_count(u)
    \/ \E t \in SessionClockReadings : SessionAdvance(t)

----------------------------------------------------------------------------
(* Vocabulary of the properties of the session manager *)

(* is_active=true, not revoked and unexpired *)
LiveSession(sid) ==
    /\ sid \in DOMAIN active_sessions
    /\ active_sessions[sid].is_active
    /\ sid \notin revoked_sessions
    /\ now <= active_sessions[sid].expires_at

LiveSessionsOf(u) == {sid \in DOMAIN active_sessions :
                        LiveSession(sid) /\ active_sessions[sid].user_id = u}

(* the session is still usable after the step *)
StaysLive(sid) ==
    /\ sid \in DOMAIN active_sessions'
    /\ active_sessions'[sid] = active_sessions[sid]
    /\ sid \notin revoked_sessions'

(* the session was evicted by the step *)
Evicted(sid) ==
    /\ sid \in DOMAIN active_sessions'
    /\ sid \in revoked_sessions'
    /\ ~active_sessions'[sid].is_active
    /\ active_sessions'[sid].revoke_reason = "session_limit_exceeded"
    /\ active_sessions'[sid].revoked_at = now

(* C8: every user has at most max_sessions_per_user sessions that are      *)
(* is_active=true, not revoked and unexpired.                              *)
C8_SessionCap ==
    \A u \in Users : Cardinality(LiveSessionsOf(u)) <= max_sessions_per_user

(* a user is at the limit after one of its sessions was evicted *)
C8_Witness ==
    \E u \in Users :
       /\ Cardinality(LiveSessionsOf(u)) = max_sessions_per_user
       /\ \E sid \in DOMAIN active_sessions :
             /\ active_sessions[sid].user_id = u
             /\ active_sessions[sid].revoke_reason = "session_limit_exceeded"

(* C9: create_session for a user who has max_sessions_per_user live        *)
(* sessions stores the new session and evicts exactly one of them, one     *)
(* whose created_at is the smallest, with reason session_limit_exceeded;   *)
(* every other live session, of this user and of the others, stays as it   *)
(* was.                                                                    *)
C9_EvictsOldest ==
    [][\A u \in Users :
          (next_sid' # next_sid
              /\ Cardinality(LiveSessionsOf(u)) = max_sessions_per_user
              /\ create_session(u, ClientOf(u))) =>
             /\ next_sid \in DOMAIN active_sessions'
             /\ active_sessions'[next_sid].user_id = u
             /\ active_sessions'[next_sid].is_active
             /\ next_sid \notin revoked_sessions'
             /\ \E gone \in LiveSessionsOf(u) :
                   /\ Evicted(gone)
                   /\ \A sid \in LiveSessionsOf(u) :
                         NotAfter(active_sessions[gone].created_at,
                                  active_sessions[sid].created_at)
                   /\ \A v \in Users : \A sid \in LiveSessionsOf(v) \ {gone} : StaysLive(sid)]_vars

(* a session was evicted although a session of its user that is still live *)
(* was created later, and a session of another user is live                *)
C9_Witness ==
    \E gone \in DOMAIN active_sessions :
       /\ active_sessions[gone].revoke_reason = "session_limit_exceeded"
       /\ \E sid \in LiveSessionsOf(active_sessions[gone].user_id) :
             ~NotAfter(active_sessions[sid].created_at, active_sessions[gone].created_at)
       /\ \E v \in Users \ {active_sessions[gone].user_id} : LiveSessionsOf(v) # {}

(* C23: validate_session on a session whose expires_at has passed returns  *)
(* no session data and revokes the session with reason expired; no step    *)
(* changes the expires_at of a session that is already expired, so that an *)
(* expired session is not revived by a later validation.                   *)
C23_ExpiredIsRevoked ==
    [][\A sid \in DOMAIN active_sessions :
          now > active_sessions[sid].expires_at =>
             /\ sid \in DOMAIN active_sessions' =>
                   active_sessions'[sid].expires_at = active_sessions[sid].expires_at
             /\ \/ sid \in revoked_sessions
                \/ /\ validation' = "None"
                   /\ sid \in revoked_sessions'
                   /\ ~active_sessions'[sid].is_active
                   /\ active_sessions'[sid].revoke_reason = "expired"
                   /\ active_sessions'[sid].revoked_at = now
                \/ \A ip \in ClientIPs : \A m \in BOOLEAN :
                      ~(calls' # calls /\ validate_session(sid, ip, m))]_vars

(* a validation returned None and revoked an expired session that no sweep *)
(* had revoked before                                                      *)
C23_Witness ==
    /\ validation = "None"
    /\ \E sid \in DOMAIN active_sessions :
          /\ active_sessions[sid].revoke_reason = "expired"
          /\ active_sessions[sid].revoked_at = now
          /\ active_sessions[sid].revoked_at > active_sessions[sid].expires_at
          /\ session_cleanup < now

(* C24: a successful validate_session increments access_count by one, sets *)
(* last_accessed to now and, exactly when less than 30 minutes remain      *)
(* before expires_at, sets expires_at to now plus the session lifetime;    *)
(* otherwise expires_at is unchanged.  A failed validation changes none of *)
(* the three fields.                                                       *)
C24_ValidationEffect ==
    [][\A sid \in DOMAIN active_sessions :
          \/ /\ sid \in DOMAIN active_sessions'
             /\ LET before == active_sessions[sid]
                    after == active_sessions'[sid]
                IN  IF validation' = "data"
                    THEN /\ after.access_count = before.access_count + 1
                         /\ after.last_accessed = now
                         /\ after.expires_at =
                               IF before.expires_at - now < 30 * 60
                               THEN now + session_timeout_minutes * 60
                               ELSE before.expires_at
                    ELSE /\ after.access_count = before.access_count
                         /\ after.last_accessed = before.last_accessed
                         /\ after.expires_at = before.expires_at
          \/ \A ip \in ClientIPs : \A m \in BOOLEAN :
                ~(calls' # calls /\ validate_session(sid, ip, m))]_vars

(* a session was validated with less than 30 minutes left and renewed, and *)
(* another validation of a session failed                                  *)
C24_Witness ==
    /\ validation = "None"
    /\ \E sid \in DOMAIN active_sessions :
          /\ active_sessions[sid].access_count = 1
          /\ active_sessions[sid].last_accessed > active_sessions[sid].created_at[1]
          /\ active_sessions[sid].expires_at
                = active_sessions[sid].last_accessed + session_timeout_minutes * 60

(* C25: a revoked session id stays in the revoked set, and its record in   *)
(* the session map, until 24 hours after its revoked_at: no step removes   *)
(* it earlier, and a sweep that runs when more than 24 hours have passed   *)
(* since revoked_at removes it from both.                                  *)
C25_RevokedRetention ==
    [][\A sid \in DOMAIN active_sessions :
          active_sessions[sid].revoked_at # NoTime =>
             IF now - active_sessions[sid].revoked_at > 24 * 3600
             THEN session_cleanup' # session_cleanup =>
                     sid \notin DOMAIN active_sessions' /\ sid \notin revoked_sessions'
             ELSE sid \in DOMAIN active_sessions' /\ sid \in revoked_sessions']_vars

(* C40: the revoked set is a subset of the stored session ids; a stored    *)
(* session has is_active = false exactly when its id is in the revoked     *)
(* set; no revoked id is in the session index of any user; every id in the *)
(* index of a user is a stored session of that user.                       *)
C40_StoresAgree ==
    /\ revoked_sessions \subseteq DOMAIN active_sessions
    /\ \A sid \in DOMAIN active_sessions :
          ~active_sessions[sid].is_active <=> sid \in revoked_sessions
    /\ \A u \in DOMAIN user_sessions :
          /\ user_sessions[u] \cap revoked_sessions = {}
          /\ \A sid \in user_sessions[u] :
                sid \in DOMAIN active_sessions /\ active_sessions[sid].user_id = u

(* a session was revoked and is still stored, another session of the same  *)
(* user is in the index, and a third one was purged after its retention    *)
C40_Witness ==
    /\ \E sid \in revoked_sessions :
          \E other \in user_sessions[active_sessions[sid].user_id] : other # sid
    /\ \E sid \in ever_revoked : sid \notin DOMAIN active_sessions

(* C10: validate_session never returns session data for an id that has     *)
(* been revoked, also not after the id was purged.                         *)
C10_RevokedNeverValidates ==
    [][(calls' # calls /\ validation' # "None") =>
          \A sid \in ever_revoked : \A ip \in ClientIPs : \A m \in BOOLEAN :
              ~validate_session(sid, ip, m)]_vars

(* in the workload of many calls a session was revoked by a call and purged *)
(* a day later, and a validation returned None                             *)
C10_Witness ==
    /\ validation = "None"
    /\ workload.calls = ManyCalls
    /\ calls >= 2
    /\ \E sid \in ever_revoked : sid \notin DOMAIN active_sessions

(* a dotted-quad IPv4 address: four fields, each a decimal number of one   *)
(* to three digits that is at most 255                                     *)
DigitValue == [d \in {"0", "1", "2", "3", "4", "5", "6", "7", "8", "9"} |->
                 CASE d = "0" -> 0 [] d = "1" -> 1 [] d = "2" -> 2 [] d = "3" -> 3
                   [] d = "4" -> 4 [] d = "5" -> 5 [] d = "6" -> 6 [] d = "7" -> 7
                   [] d = "8" -> 8 [] d = "9" -> 9]

RECURSIVE Decimal(_)
Decimal(field) ==
    IF field = <<>> THEN 0
    ELSE 10 * Decimal(SubSeq(field, 1, Len(field) - 1)) + DigitValue[field[Len(field)]]

IsOctet(field) ==
    /\ Len(field) \in 1..3
    /\ \A i \in 1..Len(field) : field[i] \in DOMAIN DigitValue
    /\ Decimal(field) <= 255

IsDottedQuad(str) ==
    /\ Len(split(str)) = 4
    /\ \A i \in 1..4 : IsOctet(split(str)[i])

SameFirstThreeOctets(a, b) ==
    /\ IsDottedQuad(a) /\ IsDottedQuad(b)
    /\ SubSeq(split(a), 1, 3) = SubSeq(split(b), 1, 3)

(* C11: validate_session with IP matching required accepts a caller IP     *)
(* that differs from the stored client_ip of a live session exactly when   *)
(* both are dotted-quad IPv4 addresses with the same first three octets.   *)
C11_SameSubnetOnly ==
    [][\A sid \in DOMAIN active_sessions : \A ip \in ClientIPs :
          (/\ calls' # calls
           /\ LiveSession(sid)
           /\ ip # active_sessions[sid].client_ip
           /\ validate_session(sid, ip, TRUE)) =>
             (validation' = "data"
                 <=> SameFirstThreeOctets(active_sessions[sid].client_ip, ip))]_vars

----------------------------------------------------------------------------
(***************************************************************************)
(* Authorization service (app/core/authorization.py).                      *)
(***************************************************************************)

(* Bound of the authorization model: the access tokens minted *)
MaxTokens == 1

(* Program constant: ttl_minutes of _create_secure_access_token *)
access_token_ttl_minutes == 30

(* user is None: an anonymous caller; user_id is None: not supplied *)
NoUser == "None"
AuthCallers == {NoUser} \cup Users

(* client_ip is None *)
NoIP == <<>>

(* the address each caller connects from *)
AuthClientOf(user) == IF user = NoUser THEN NoIP ELSE HomeIP

AuthOperations == {"read", "stream", "write", "delete", "share"}

(* the metadata store: t1 is a public and t2 a private track of u1, no     *)
(* other track exists                                                      *)
TrackMetadata == [track_id \in {"t1", "t2"} |->
                    [owner_id |-> "u1", is_public |-> (track_id = "t1")]]
AuthTrackIds == {"t1", "t2", "t3"}
NoTrack == [missing |-> TRUE]

(* a lookup that answers with a public track of nobody for an unknown id *)
LookupWithDefault(track_id) ==
    IF track_id \in DOMAIN TrackMetadata
    THEN TrackMetadata[track_id]
    ELSE [owner_id |-> NoUser, is_public |-> TRUE]

(* get_track_by_id of the metadata store *)
get_track_by_id(track_id) ==
    IF track_id \in DOMAIN TrackMetadata THEN TrackMetadata[track_id] ELSE NoTrack

TokenIds == 1..MaxTokens
UnknownToken == 0

(* the wall clock: start, the last instant at which a token minted at 0 is *)
(* valid, and the first instant at which it is expired                     *)
AuthClockReadings ==
    {0, access_token_ttl_minutes * 60, access_token_ttl_minutes * 60 + 1}

(* what a call returned or raised; for a validation, with the token it was *)
(* about, and for a validation that returned True, with the other          *)
(* arguments checked against the stored session                            *)
Returned(kind, call) == [kind |-> kind, call |-> call]
NoCall == <<>>

(* a permission matrix that lets every authenticated caller write *)
GrantsWriteToAll(operation, is_public, user, owner_id) ==
    CASE operation \in {"read", "stream"} -> is_public \/ (user # NoUser /\ user = owner_id)
      [] operation = "write" -> user # NoUser
      [] operation = "delete" -> user # NoUser /\ user = owner_id
      [] OTHER -> FALSE

(* lines 60-78: the permission matrix *)
access_granted(operation, is_public, user, owner_id) ==
    CASE operation \in {"read", "stream"} -> is_public \/ (user # NoUser /\ user = owner_id)
      [] operation = "write" -> user # NoUser /\ user = owner_id
      [] operation = "delete" -> user # NoUser /\ user = owner_id
      [] OTHER -> FALSE

(* _create_secure_access_token: the store after the token was stored *)
_create_secure_access_token(track_id, user_id, operation, client_ip) ==
    [token \in DOMAIN secure_track_sessions \cup {next_token} |->
        IF token = next_token
        THEN [track_id |-> track_id, user_id |-> user_id, operation |-> operation,
              client_ip |-> client_ip,
              expires_at |-> now + access_token_ttl_minutes * 60,
              created_at |-> now]
        ELSE secure_track_sessions[token]]

(* check_track_access *)
check_track_access(track_id, user, operation, client_ip) ==
    /\ LET track == get_track_by_id(track_id) IN
       IF track = NoTrack
       THEN /\ auth_result' = Returned("NotFound", NoCall)
            /\ UNCHANGED <<secure_track_sessions, next_token>>
       ELSE IF ~access_granted(operation, track.is_public, user, track.owner_id)
       THEN /\ auth_result' = Returned(IF user = NoUser THEN "Unauthenticated" ELSE "Forbidden",
                                        NoCall)
            /\ UNCHANGED <<secure_track_sessions, next_token>>
       ELSE /\ next_token <= MaxTokens
            /\ secure_track_sessions' =
                   _create_secure_access_token(track_id,
                       IF user # NoUser THEN user ELSE "anonymous", operation, client_ip)
            /\ next_token' = next_token + 1
            /\ auth_result' = Returned("granted", NoCall)
    /\ UNCHANGED now
    /\ UNCHANGED outsideAuth

(* _cleanup_expired_sessions of the authorization service *)
_cleanup_expired_tokens(store) ==
    [token \in {t \in DOMAIN store : ~(store[t].expires_at < now)} |-> store[token]]

(* a comparison of the session parameters that leaves out the operation *)
ParametersMatchAnyOperation(session, track_id, user_id, operation) ==
    /\ session.track_id = track_id
    /\ ~(user_id # NoUser /\ session.user_id # user_id)

(* lines 160-170: the session parameters *)
ParametersMatch(session, track_id, user_id, operation) ==
    /\ session.track_id = track_id
    /\ ~(user_id # NoUser /\ session.user_id # user_id)
    /\ session.operation = operation

(* lines 173-186: the address check *)
TokenIpAccepted(stored, current) ==
    IF current # NoIP /\ stored # NoIP /\ stored # current
    THEN LET session_ip_parts == split(stored)
             current_ip_parts == split(current)
         IN  /\ Len(session_ip_parts) = 4 /\ Len(current_ip_parts) = 4
             /\ SubSeq(session_ip_parts, 1, 3) = SubSeq(current_ip_parts, 1, 3)
    ELSE TRUE

(* validate_secure_access_token; the clock is read by the sweep (line 196)  *)
(* and again by the expiry check (line 154), where it reads later           *)
validate_secure_access_token(token, track_id, user_id, operation, client_ip, later) ==
    /\ later >= now
    /\ now' = later
    /\ \E swept \in {_cleanup_expired_tokens(secure_track_sessions)} :
          IF token \notin DOMAIN swept
          THEN /\ secure_track_sessions' = swept
               /\ auth_result' = Returned("invalid", <<token>>)
          ELSE IF later > swept[token].expires_at
          THEN /\ secure_track_sessions' = [t \in DOMAIN swept \ {token} |-> swept[t]]
               /\ auth_result' = Returned("invalid", <<token>>)
          ELSE /\ secure_track_sessions' = swept
               /\ auth_result' =
                      IF /\ ParametersMatch(swept[token], track_id, user_id, operation)
                         /\ TokenIpAccepted(swept[token].client_ip, client_ip)
                      THEN Returned("valid", <<token, track_id, user_id, operation>>)
                      ELSE Returned("invalid", <<token>>)
    /\ UNCHANGED next_token
    /\ UNCHANGED outsideAuth

(* revoke_user_sessions of the authorization service *)
revoke_track_sessions(user_id) ==
    /\ secure_track_sessions' =
          [token \in {t \in DOMAIN secure_track_sessions :
                         secure_track_sessions[t].user_id # user_id} |->
              secure_track_sessions[token]]
    /\ auth_result' = Returned("revoked", NoCall)
    /\ UNCHANGED <<now, next_token>>
    /\ UNCHANGED outsideAuth

(* the wall clock advances between two calls *)
AuthAdvance(t) ==
    /\ t > now
    /\ now' = t
    /\ auth_result' = Returned("none", NoCall)
    /\ UNCHANGED <<secure_track_sessions, next_token>>
    /\ UNCHANGED outsideAuth

(* the arguments with which tokens are validated *)
ValidatedOperations == {"read", "write", "delete"}
ValidatedIPs == {NoIP, HomeIP, NeighbourIP, OtherNetIP}

AuthServiceInit ==
    /\ secure_track_sessions = EmptyMap
    /\ next_token = 1
    /\ auth_result = Returned("none", NoCall)

AuthNext ==
    \/ \E track_id \in AuthTrackIds, user \in AuthCallers, operation \in AuthOperations :
          check_track_access(track_id, user, operation, AuthClientOf(user))
    \/ \E token \in TokenIds \cup {UnknownToken}, track_id \in DOMAIN TrackMetadata,
          user_id \in AuthCallers, operation \in ValidatedOperations,
          client_ip \in ValidatedIPs, later \in AuthClockReadings :
          validate_secure_access_token(token, track_id, user_id, operation, client_ip, later)
    \/ \E user_id \in Users : revoke_track_sessions(user_id)
    \/ \E t \in AuthClockReadings : AuthAdvance(t)

----------------------------------------------------------------------------
(* Vocabulary of the properties of the authorization service *)

(* the access table: read and stream for a public track or for the owner,  *)
(* write and delete for the owner only, nothing for an unknown operation   *)
TableGrants(operation, is_public, is_owner) ==
    \/ operation \in {"read", "stream"} /\ (is_public \/ is_owner)
    \/ operation \in {"write", "delete"} /\ is_owner

IsOwner(user, track_id) == user # NoUser /\ user = TrackMetadata[track_id].owner_id

(* C12: for every operation, is_public, caller-is-owner and                *)
(* caller-is-authenticated, check_track_access grants exactly when the     *)
(* access table grants, and otherwise denies with Unauthenticated for an   *)
(* anonymous caller and with Forbidden for an authenticated caller.        *)
C12_AccessMatrix ==
    [][\A track_id \in DOMAIN TrackMetadata : \A user \in AuthCallers :
       \A operation \in AuthOperations :
          (/\ auth_result'.kind \in {"granted", "Unauthenticated", "Forbidden", "NotFound"}
           /\ check_track_access(track_id, user, operation, AuthClientOf(user))) =>
             auth_result'.kind =
                IF TableGrants(operation, TrackMetadata[track_id].is_public,
                               IsOwner(user, track_id))
                THEN "granted"
                ELSE IF user = NoUser THEN "Unauthenticated" ELSE "Forbidden"]_vars

(* the owner was granted delete and a token was minted for it; after that   *)
(* an authenticated caller was denied                                       *)
C12_Witness ==
    /\ auth_result.kind = "Forbidden"
    /\ \E token \in DOMAIN secure_track_sessions :
          /\ secure_track_sessions[token].operation = "delete"
          /\ secure_track_sessions[token].user_id = "u1"

C27_TokenIpBinding ==
    [][\A token \in DOMAIN secure_track_sessions : \A track_id \in DOMAIN TrackMetadata :
       \A user_id \in AuthCallers : \A operation \in ValidatedOperations :
       \A client_ip \in ValidatedIPs :
          (/\ secure_track_sessions[token].client_ip # NoIP
           /\ auth_result'.kind = "valid"
           /\ validate_secure_access_token(token, track_id, user_id, operation,
                                           client_ip, now')) =>
             LET stored == secure_track_sessions[token].client_ip IN
             IF IsDottedQuad(stored) /\ client_ip # NoIP /\ IsDottedQuad(client_ip)
             THEN SubSeq(split(stored), 1, 3) = SubSeq(split(client_ip), 1, 3)
             ELSE stored = client_ip]_vars

(* C13: validate_secure_access_token returns true only for a token that is *)
(* stored and unexpired, whose stored track_id and operation equal the     *)
(* supplied ones and whose stored user_id equals the supplied one when one *)
(* is supplied; a token found expired is deleted and reported invalid.     *)
C13_TokenValidation ==
    [][auth_result'.kind \in {"valid", "invalid"} =>
          LET token == auth_result'.call[1] IN
          /\ auth_result'.kind = "valid" =>
                /\ token \in DOMAIN secure_track_sessions
                /\ now' <= secure_track_sessions[token].expires_at
                /\ secure_track_sessions[token].track_id = auth_result'.call[2]
                /\ secure_track_sessions[token].operation = auth_result'.call[4]
                /\ auth_result'.call[3] # NoUser =>
                      secure_track_sessions[token].user_id = auth_result'.call[3]
                /\ \E client_ip \in ValidatedIPs :
                      validate_secure_access_token(token, auth_result'.call[2],
                          auth_result'.call[3], auth_result'.call[4], client_ip, now')
          /\ (/\ token \in DOMAIN secure_track_sessions
              /\ now' > secure_track_sessions[token].expires_at) =>
                /\ auth_result'.kind = "invalid"
                /\ token \notin DOMAIN secure_track_sessions']_vars

(* a token was found valid at the last instant of its lifetime *)
C13_Witness ==
    /\ auth_result.kind = "valid"
    /\ \E token \in DOMAIN secure_track_sessions :
          /\ secure_track_sessions[token].expires_at = now
          /\ secure_track_sessions[token].created_at < now

----------------------------------------------------------------------------
(***************************************************************************)
(* Signed URL tokens (app/core/token_utils.py).                            *)
(***************************************************************************)

(* Bound of the token model: the tokens handed out *)
MaxTrackTokens == 2

(* Program constant *)
TOKEN_EXPIRE_MINUTES_DEFAULT == 2

(* range_header is None or empty *)
NoRange == ""
RangeHeaders == {NoRange, "bytes=0-99", "bytes=100-199"}

SignedTrackIds == {"t1", "t2"}

(* jwt.encode: the payload and its signature, which names the signing key *)
jwt_encode(payload, key) == [payload |-> payload, signature |-> key]

(* jwt.decode succeeds when the signature was made with the key and the    *)
(* exp claim is not in the past; otherwise it raises JWTError              *)
jwt_decodes(token, key) == token.signature = key /\ ~(token.payload.exp < now)

(* a token that was not signed with SECRET_KEY *)
ForgedToken ==
    jwt_encode([track_id |-> "t1", exp |-> 2 * TOKEN_EXPIRE_MINUTES_DEFAULT * 60,
                ip |-> NoIP, rng |-> NoRange], "another key")

(* the wall clock: start, the last instant at which a token minted at 0 is *)
(* accepted, and the first instant at which it is stale                    *)
TokenClockReadings ==
    {0, TOKEN_EXPIRE_MINUTES_DEFAULT * 60, TOKEN_EXPIRE_MINUTES_DEFAULT * 60 + 1}

(* create_track_token: an absent ip or rng claim reads as None *)
create_track_token(track_id, ip, range_header) ==
    /\ Cardinality(track_tokens) < MaxTrackTokens
    /\ LET payload == [track_id |-> track_id,
                       exp |-> now + TOKEN_EXPIRE_MINUTES_DEFAULT * 60,
                       ip |-> IF ip # NoIP THEN ip ELSE NoIP,
                       rng |-> IF range_header # NoRange THEN range_header ELSE NoRange]
       IN  track_tokens' = track_tokens \cup {jwt_encode(payload, "SECRET_KEY")}
    /\ verdict' = Returned("none", NoCall)
    /\ UNCHANGED now
    /\ UNCHANGED outsideToken

(* lines 59-60 *)
IpMismatch(payload, ip) ==
    ip # NoIP /\ payload.ip # NoIP /\ payload.ip # ip

(* lines 62-63 *)
RangeMismatch(payload, range_header) ==
    payload.rng # NoRange /\ range_header # payload.rng

(* verify_track_token *)
verify_track_token(token, track_id, ip, range_header) ==
    /\ verdict' =
          IF ~jwt_decodes(token, "SECRET_KEY") THEN Returned("Unauthenticated", NoCall)
          ELSE IF token.payload.track_id # track_id THEN Returned("Forbidden", NoCall)
          ELSE IF IpMismatch(token.payload, ip) THEN Returned("Forbidden", NoCall)
          ELSE IF RangeMismatch(token.payload, range_header)
               THEN Returned("Forbidden", NoCall)
          ELSE Returned("accepted", <<token, track_id, ip, range_header>>)
    /\ UNCHANGED <<now, track_tokens>>
    /\ UNCHANGED outsideToken

(* the wall clock advances between two calls *)
TokenAdvance(t) ==
    /\ t > now
    /\ now' = t
    /\ verdict' = Returned("none", NoCall)
    /\ UNCHANGED track_tokens
    /\ UNCHANGED outsideToken

TokenUtilsInit ==
    /\ track_tokens = {}
    /\ verdict = Returned("none", NoCall)

TokenNext ==
    \/ \E track_id \in SignedTrackIds, ip \in {NoIP, HomeIP},
          range_header \in {NoRange, "bytes=0-99"} :
          create_track_token(track_id, ip, range_header)
    \/ \E token \in track_tokens \cup {ForgedToken}, track_id \in SignedTrackIds,
          ip \in {NoIP, HomeIP, NeighbourIP}, range_header \in RangeHeaders :
          verify_track_token(token, track_id, ip, range_header)
    \/ \E t \in TokenClockReadings : TokenAdvance(t)

(* C14: verify_track_token accepts a token minted with ip=A and rng=R only *)
(* when the verification supplies exactly ip=A and range_header=R, and     *)
(* never accepts a token past its exp.                                     *)
C14_ExactBinding ==
    verdict.kind = "accepted" =>
       LET payload == verdict.call[1].payload IN
       /\ now <= payload.exp
       /\ (payload.ip # NoIP /\ payload.rng # NoRange) =>
             /\ verdict.call[3] = payload.ip
             /\ verdict.call[4] = payload.rng

----------------------------------------------------------------------------
(***************************************************************************)
(* HLS segment cleanup (app/core/hls_cleanup.py).  _cleanup_once runs in a *)
(* worker thread; each of its file-system calls is one step, and the HLS   *)
(* generator creates files between any two of them.                        *)
(***************************************************************************)

(* Bounds of the cleanup model: files created, sweep passes *)
MaxCreated == 3
MaxPasses == 2

(* Program constants: the defaults of cleanup_loop *)
interval_seconds == 120
age_seconds == 600

HLS_DIRECTORY == "hls"
_SEGMENT_EXT == <<".", "t", "s">>

(* the directories and the file names used: a segment, a playlist and a    *)
(* segment that is still being written under a temporary name              *)
SubDirectories == {"a"}
SegmentName == <<"0", ".", "t", "s">>
PlaylistName == <<"p", ".", "m", "3", "u", "8">>
PartialName == <<"0", ".", "t", "s", ".", "t", "m", "p">>
FileNames == {SegmentName, PlaylistName, PartialName}

(* str.endswith *)
endswith(str, suffix) ==
    /\ Len(str) >= Len(suffix)
    /\ SubSeq(str, Len(str) - Len(suffix) + 1, Len(str)) = suffix

(* the wall clock: start, the last instant at which a file written at 0 is *)
(* kept, and the first instant at which it is old                          *)
HlsClockReadings == {0, age_seconds, age_seconds + 1}

(* os.listdir / the scan of os.walk: the names in a directory *)
listdir(files, dir) == {path[2] : path \in {q \in DOMAIN files : q[1] = dir}}

Without(files, gone) == [path \in DOMAIN files \ gone |-> files[path]]

Deleted(paths) == {[path |-> path, mtime |-> hls_files[path], at |-> now] : path \in paths}

Sweep(at, started, wake_at, todo, root_files, dir, files, file) ==
    [pc |-> at, now |-> started, wake_at |-> wake_at, todo |-> todo,
     root_files |-> root_files, dir |-> dir, files |-> files, file |-> file]

Asleep(wake_at) == Sweep("sleeping", 0, wake_at, {}, {}, HLS_DIRECTORY, {}, <<>>)

(* line 46 and the first scan of os.walk(HLS_DIRECTORY, topdown=False):    *)
(* the root is listed first and yielded last                               *)
StartPass ==
    /\ sweep.pc = "sleeping"
    /\ passes < MaxPasses
    /\ now >= sweep.wake_at
    /\ sweep' = [sweep EXCEPT !.pc = "walk", !.now = now, !.todo = hls_dirs,
                              !.root_files = listdir(hls_files, HLS_DIRECTORY)]
    /\ UNCHANGED <<now, hls_dirs, hls_files, removed, created, passes>>
    /\ UNCHANGED outsideHls

(* os.walk descends into a directory listed before and yields its files;   *)
(* a directory that is gone is skipped                                     *)
EnterDirectory(dir) ==
    /\ sweep.pc = "walk"
    /\ dir \in sweep.todo
    /\ sweep' = IF dir \in hls_dirs
                THEN [sweep EXCEPT !.pc = "files", !.todo = @ \ {dir}, !.dir = dir,
                                   !.files = listdir(hls_files, dir)]
                ELSE [sweep EXCEPT !.todo = @ \ {dir}]
    /\ UNCHANGED <<now, hls_dirs, hls_files, removed, created, passes>>
    /\ UNCHANGED outsideHls

(* os.walk yields the root with the files listed at the start of the pass *)
EnterRoot ==
    /\ sweep.pc = "walk"
    /\ sweep.todo = {}
    /\ sweep' = [sweep EXCEPT !.pc = "files", !.dir = HLS_DIRECTORY,
                              !.files = sweep.root_files]
    /\ UNCHANGED <<now, hls_dirs, hls_files, removed, created, passes>>
    /\ UNCHANGED outsideHls

(* lines 49-54: the next file of the listing; endswith, getmtime, the age *)
CheckFile(file) ==
    /\ sweep.pc = "files"
    /\ file \in sweep.files
    /\ LET path == <<sweep.dir, file>> IN
       sweep' = IF /\ endswith(file, _SEGMENT_EXT)
                   /\ path \in DOMAIN hls_files
                   /\ sweep.now - hls_files[path] > age_seconds
                THEN [sweep EXCEPT !.pc = "remove", !.files = @ \ {file}, !.file = file]
                ELSE [sweep EXCEPT !.files = @ \ {file}]
    /\ UNCHANGED <<now, hls_dirs, hls_files, removed, created, passes>>
    /\ UNCHANGED outsideHls

(* lines 55-59: os.remove; a file that is gone is skipped *)
RemoveFile ==
    /\ sweep.pc = "remove"
    /\ LET path == <<sweep.dir, sweep.file>> IN
       IF path \in DOMAIN hls_files
       THEN /\ hls_files' = Without(hls_files, {path})
            /\ removed' = removed \cup Deleted({path})
       ELSE UNCHANGED <<hls_files, removed>>
    /\ sweep' = [sweep EXCEPT !.pc = "files", !.file = <<>>]
    /\ UNCHANGED <<now, hls_dirs, created, passes>>
    /\ UNCHANGED outsideHls

(* lines 64-67: after the files of a directory; the root ends the pass and  *)
(* the loop sleeps, another directory is listed                            *)
ListDirectory ==
    /\ sweep.pc = "files"
    /\ sweep.files = {}
    /\ IF sweep.dir = HLS_DIRECTORY
       THEN /\ sweep' = Asleep(now + interval_seconds)
            /\ passes' = passes + 1
       ELSE /\ sweep' = IF sweep.dir \in hls_dirs /\ listdir(hls_files, sweep.dir) = {}
                        THEN [sweep EXCEPT !.pc = "rmtree"]
                        ELSE [sweep EXCEPT !.pc = "walk"]
            /\ UNCHANGED passes
    /\ UNCHANGED <<now, hls_dirs, hls_files, removed, created>>
    /\ UNCHANGED outsideHls

(* line 68: shutil.rmtree(root, ignore_errors=True) removes the directory   *)
(* with everything that is in it now                                       *)
RemoveTree ==
    /\ sweep.pc = "rmtree"
    /\ LET inside == {path \in DOMAIN hls_files : path[1] = sweep.dir} IN
       /\ hls_files' = Without(hls_files, inside)
       /\ removed' = removed \cup Deleted(inside)
    /\ hls_dirs' = hls_dirs \ {sweep.dir}
    /\ sweep' = [sweep EXCEPT !.pc = "walk"]
    /\ UNCHANGED <<now, created, passes>>
    /\ UNCHANGED outsideHls

(* the HLS generator creates a file, and its directory if it is missing *)
CreateFile(dir, file) ==
    /\ created < MaxCreated
    /\ <<dir, file>> \notin DOMAIN hls_files
    /\ hls_files' = [path \in DOMAIN hls_files \cup {<<dir, file>>} |->
                        IF path = <<dir, file>> THEN now ELSE hls_files[path]]
    /\ hls_dirs' = IF dir = HLS_DIRECTORY THEN hls_dirs ELSE hls_dirs \cup {dir}
    /\ created' = created + 1
    /\ UNCHANGED <<now, sweep, removed, passes>>
    /\ UNCHANGED outsideHls

(* the wall clock advances *)
HlsAdvance(t) ==
    /\ t > now
    /\ now' = t
    /\ UNCHANGED hlsState
    /\ UNCHANGED outsideHls

(* an empty HLS root; the cleanup task starts with a pass *)
HlsCleanupInit ==
    /\ hls_dirs = {}
    /\ hls_files = EmptyMap
    /\ sweep = Asleep(0)
    /\ removed = {}
    /\ created = 0
    /\ passes = 0

HlsNext ==
    \/ StartPass
    \/ \E dir \in SubDirectories : EnterDirectory(dir)
    \/ EnterRoot
    \/ \E file \in FileNames : CheckFile(file)
    \/ RemoveFile
    \/ ListDirectory
    \/ RemoveTree
    \/ \E dir \in SubDirectories \cup {HLS_DIRECTORY}, file \in FileNames :
          CreateFile(dir, file)
    \/ \E t \in HlsClockReadings : HlsAdvance(t)

(* C15: in every interleaving of the sweep with the HLS generator, no file *)
(* whose name does not end in .ts is deleted, and no .ts file whose age is *)
(* at most age_seconds is deleted.                                         *)
C15_SweepSafety ==
    \A r \in removed :
       /\ endswith(r.path[2], _SEGMENT_EXT)
       /\ r.at - r.mtime > age_seconds

(* C30: a directory under the HLS root is removed by the sweep only when   *)
(* it holds no file at the moment it is removed, and a directory that is   *)
(* found empty after its old segments were deleted is removed; the root    *)
(* is never removed.                                                       *)
C30_EmptyDirectoriesOnly ==
    [][/\ \A dir \in hls_dirs :
             dir \notin hls_dirs' => (dir # HLS_DIRECTORY /\ listdir(hls_files, dir) = {})
       /\ (/\ sweep.pc = "files" /\ sweep.files = {} /\ sweep' # sweep
           /\ sweep.dir \in hls_dirs /\ listdir(hls_files, sweep.dir) = {}) =>
             sweep'.pc = "rmtree"]_vars

----------------------------------------------------------------------------
(***************************************************************************)
(* Chaotic stream cipher (app/core/chaotic_cipher.py).                     *)
(*                                                                         *)
(* Bytes are numbers in 0..255 and byte strings are sequences of them.     *)
(* The float64 lattice is held in fixed point with 8 fractional bits.  The *)
(* library hash functions (PBKDF2, BLAKE2b) are deterministic functions of *)
(* their inputs: where their output is consumed as numbers a checksum of   *)
(* the inputs stands for it.  An HMAC-SHA256 tag is kept symbolic: its     *)
(* first byte names the key and the message it was computed from and the   *)
(* other bytes their position, so that two tags are equal exactly when key *)
(* and message are equal.                                                  *)
(***************************************************************************)

(* Bound of the cipher model: the length of a plaintext *)
MaxPlainLen == 2

(* Program constants *)
SALT_LENGTH == 32
MAC_LENGTH == 32
MIN_KEY_LENGTH == 12
MIN_CHAR_TYPES == 3
MAX_DATA_MIB == 50

FixedPoint == 256

PerformanceModes == {"fast", "balanced", "secure"}

(* lines 20-34 *)
LATTICE_SIZE(mode) ==
    CASE mode = "fast" -> 1 [] mode = "secure" -> 16 [] OTHER -> 8
TRANSIENT_STEPS(mode) ==
    CASE mode = "fast" -> 5 [] mode = "secure" -> 1000 [] OTHER -> 500
PBKDF2_ITERATIONS(mode) ==
    CASE mode = "fast" -> 10 [] mode = "secure" -> 10000 [] OTHER -> 5000

(* a function over 1..n as a sequence *)
RECURSIVE Tabulate(_, _, _)
Tabulate(f, j, n) ==
    IF j > n THEN <<>>
    ELSE IF j = n THEN <<f[j]>>
    ELSE Tabulate(f, j, (j + n) \div 2) \o Tabulate(f, ((j + n) \div 2) + 1, n)

RECURSIVE SumBetween(_, _, _)
SumBetween(bytes, j, n) ==
    IF j > n THEN 0
    ELSE IF j = n THEN bytes[j]
    ELSE (SumBetween(bytes, j, (j + n) \div 2)
            + SumBetween(bytes, ((j + n) \div 2) + 1, n)) % 65536

Sum(bytes) == SumBetween(bytes, 1, Len(bytes))

RECURSIVE Pow2(_)
Pow2(n) == IF n = 0 THEN 1 ELSE 2 * Pow2(n - 1)

(* a ^ b and a | b on non-negative integers *)
RECURSIVE BitXor(_, _)
BitXor(a, b) ==
    IF a = 0 THEN b
    ELSE IF b = 0 THEN a
    ELSE ((a + b) % 2) + 2 * BitXor(a \div 2, b \div 2)

RECURSIVE BitOr(_, _)
BitOr(a, b) ==
    IF a = 0 THEN b
    ELSE IF b = 0 THEN a
    ELSE (IF a % 2 = 1 \/ b % 2 = 1 THEN 1 ELSE 0) + 2 * BitOr(a \div 2, b \div 2)

(* the characters of the passwords and their code points *)
Ord == [c \in {"A", "a", "b", "1", "!"} |->
          CASE c = "A" -> 65 [] c = "a" -> 97 [] c = "b" -> 98 [] c = "1" -> 49
            [] c = "!" -> 33]
islower(c) == c \in {"a", "b"}
isupper(c) == c \in {"A"}
isdigit(c) == c \in {"1"}
isalnum(c) == c \in {"A", "a", "b", "1"}

(* str.encode() *)
encode(str) == Tabulate([i \in 1..Len(str) |-> Ord[str[i]]], 1, Len(str))

Repeat(c, n) == Tabulate([i \in 1..n |-> c], 1, n)

(* passwords: two that pass validate_key_strength, one of 11 characters    *)
(* with three character types, and one of 12 characters with two           *)
StrongKey == <<"A", "1">> \o Repeat("a", MIN_KEY_LENGTH - 2)
OtherStrongKey == <<"!", "1">> \o Repeat("b", MIN_KEY_LENGTH - 2)
ShortKey == <<"A", "1">> \o Repeat("a", MIN_KEY_LENGTH - 3)
PlainKey == <<"1">> \o Repeat("a", MIN_KEY_LENGTH - 1)
StrongKeys == {StrongKey, OtherStrongKey}
SecretKeys == StrongKeys \cup {ShortKey, PlainKey}

(* a type count threshold of two *)
KeyStrengthTwoTypes(secret_key) ==
    IF Len(secret_key) < MIN_KEY_LENGTH THEN FALSE
    ELSE LET chars == {secret_key[i] : i \in 1..Len(secret_key)}
             sum(flags) == Cardinality({k \in 1..Len(flags) : flags[k]})
             has_lower == \E c \in chars : islower(c)
             has_upper == \E c \in chars : isupper(c)
             has_digit == \E c \in chars : isdigit(c)
             has_special == \E c \in chars : ~isalnum(c)
         IN  sum(<<has_lower, has_upper, has_digit, has_special>>) >= MIN_CHAR_TYPES - 1

(* validate_key_strength *)
validate_key_strength(secret_key) ==
    IF Len(secret_key) < MIN_KEY_LENGTH THEN FALSE
    ELSE LET chars == {secret_key[i] : i \in 1..Len(secret_key)}
             sum(flags) == Cardinality({k \in 1..Len(flags) : flags[k]})
             has_lower == \E c \in chars : islower(c)
             has_upper == \E c \in chars : isupper(c)
             has_digit == \E c \in chars : isdigit(c)
             has_special == \E c \in chars : ~isalnum(c)
         IN  sum(<<has_lower, has_upper, has_digit, has_special>>) >= MIN_CHAR_TYPES

(* secrets.token_bytes(32): the salts drawn *)
Salts == {Repeat(0, SALT_LENGTH),
          Tabulate([i \in 1..SALT_LENGTH |-> (i * 37) % 256], 1, SALT_LENGTH)}

(* the bytes of b"HMAC_DERIVE" *)
HMAC_DERIVE == <<72, 77, 65, 67, 95, 68, 69, 82, 73, 86, 69>>

(* the personalisation strings of the three subkeys *)
Domains == [x |-> "CML_INIT_STATE", r |-> "CML_PARAMETERS", eps |-> "CML_COUPLING"]
DomainTag(person) ==
    CASE person = "CML_INIT_STATE" -> 1 [] person = "CML_PARAMETERS" -> 2
      [] person = "CML_COUPLING" -> 3

(* a digest of the given length that depends on both seeds *)
Digest(seed, tweak, length) ==
    Tabulate([i \in 1..length |-> (seed * 31 + tweak * 17 + i * (2 * tweak + 7)) % 256],
             1, length)

(* PBKDF2HMAC(SHA256, length, salt, iterations).derive(password) *)
PBKDF2(password, salt, iterations, length) ==
    Digest(Sum(password) + 3 * Sum(salt), iterations % 256, length)

(* hashlib.blake2b(key, digest_size=32, person=person).digest() *)
blake2b(key, person) == Digest(Sum(key), DomainTag(person), 32)

(* hmac.new(key, msg, hashlib.sha256).digest() *)
hmac_sha256(key, msg) ==
    Tabulate([i \in 1..MAC_LENGTH |->
                IF i = 1 THEN <<"hmac-sha256", key, msg>> ELSE <<"hmac-sha256", i>>],
             1, MAC_LENGTH)

(* a comparison that accepts every tag *)
CompareNothing(a, b) == TRUE

(* hmac.compare_digest *)
compare_digest(a, b) == a = b

(* lines 72-73 and 80-81: the two seed bytes of node i (counted from 0),   *)
(* big-endian                                                              *)
SeedVal(key, i) ==
    LET seed_bytes == IF i * 2 + 1 < Len(key)
                      THEN SubSeq(key, i * 2 + 1, (i + 1) * 2)
                      ELSE SubSeq(key, (i % 16) + 1, (i % 16) + 2)
    IN  seed_bytes[1] * 256 + seed_bytes[2]

(* _initialize_cml: x in [0.1, 0.9], r in [3.8, 4.0], epsilon in           *)
(* [0.1, 0.4]; of the four bytes of eps_val the upper two are kept         *)
_initialize_cml(secret_key, salt, mode) ==
    LET master_key == PBKDF2(encode(secret_key), salt, PBKDF2_ITERATIONS(mode), 64)
        x_key == blake2b(master_key, Domains.x)
        r_key == blake2b(master_key, Domains.r)
        eps_key == blake2b(master_key, Domains.eps)
        n == LATTICE_SIZE(mode)
    IN  [x |-> Tabulate([j \in 1..n |->
                   FixedPoint \div 10
                     + (SeedVal(x_key, j - 1) * 8 * FixedPoint) \div (65535 * 10)], 1, n),
         r |-> Tabulate([j \in 1..n |->
                   (38 * FixedPoint) \div 10
                     + (SeedVal(r_key, j - 1) * 2 * FixedPoint) \div (65535 * 10)], 1, n),
         epsilon |-> FixedPoint \div 10
                       + ((eps_key[1] * 256 + eps_key[2]) * 3 * FixedPoint)
                            \div (65535 * 10),
         salt |-> salt]

(* np.roll *)
roll(x, shift) == [j \in 1..Len(x) |-> x[((j - 1 - shift) % Len(x)) + 1]]

(* lines 99-102 and 120-122: one evolution step of the lattice *)
Evolve(x, r, epsilon) ==
    LET logistic == Tabulate([j \in 1..Len(x) |->
                        (r[j] * x[j] * (FixedPoint - x[j])) \div (FixedPoint * FixedPoint)],
                        1, Len(x))
        up == roll(logistic, 1)
        down == roll(logistic, -1)
    IN  Tabulate([j \in 1..Len(x) |->
                    ((FixedPoint - epsilon) * logistic[j]
                        + epsilon * ((up[j] + down[j]) \div 2)) \div FixedPoint],
                 1, Len(x))

(* lines 98-107: step i of the transient phase *)
TransientStep(x, r, epsilon, mode, i) ==
    CHOOSE next \in
        {IF i % (IF mode = "fast" THEN 50 ELSE 100) = 0
         THEN Tabulate(roll(y, 1), 1, Len(y)) ELSE y : y \in {Evolve(x, r, epsilon)}} : TRUE

(* the steps lo .. hi-1 of the transient phase, in this order *)
RECURSIVE Transient(_, _, _, _, _, _)
Transient(x, r, epsilon, mode, lo, hi) ==
    IF hi <= lo THEN x
    ELSE IF hi = lo + 1 THEN TransientStep(x, r, epsilon, mode, lo)
    ELSE CHOOSE done \in
            {Transient(half, r, epsilon, mode, (lo + hi) \div 2, hi) :
                half \in {Transient(x, r, epsilon, mode, lo, (lo + hi) \div 2)}} : TRUE

(* lines 125-141: the output byte of a lattice state *)
RECURSIVE MixNodes(_, _, _)
MixNodes(x, mode, j) ==
    IF j = Len(x) THEN 0
    ELSE LET val == ((x[j + 1] * 255) \div FixedPoint) % 256
             rotated == BitOr((val * Pow2(j % 8)) % 256, val \div Pow2(8 - (j % 8))) % 256
         IN  BitXor(IF mode = "fast" THEN val ELSE rotated, MixNodes(x, mode, j + 1))

(* lines 138-139: byte_val ^= (byte_val << 1) & 0xFF, and then             *)
(* byte_val ^= (byte_val >> 1) & 0xFF                                      *)
Diffuse(byte_val) ==
    LET shifted == BitXor(byte_val, (byte_val * 2) % 256)
    IN  BitXor(shifted, (shifted \div 2) % 256)

OutputByte(x, mode) ==
    LET byte_val == MixNodes(x, mode, 0)
    IN  IF mode = "fast" THEN byte_val % 256
        ELSE Diffuse(byte_val) % 256

(* lines 114-143: length bytes; the lattice state runs on from chunk to chunk *)
RECURSIVE GenerateBytes(_, _, _, _, _)
GenerateBytes(x, r, epsilon, mode, length) ==
    IF length = 0 THEN <<>>
    ELSE CHOOSE bytes \in
            {<<OutputByte(y, mode)>> \o GenerateBytes(y, r, epsilon, mode, length - 1) :
                y \in {Evolve(x, r, epsilon)}} : TRUE

(* _generate_keystream_cml *)
_generate_keystream_cml(cml, mode, length) ==
    CHOOSE keystream \in
        {GenerateBytes(settled, cml.r, cml.epsilon, mode, length) :
            settled \in {Transient(cml.x, cml.r, cml.epsilon, mode, 0,
                                   TRANSIENT_STEPS(mode))}} : TRUE

(* a combination of data and keystream by addition *)
AddBytes(data, keystream) ==
    LET n == IF Len(data) < Len(keystream) THEN Len(data) ELSE Len(keystream)
    IN  Tabulate([i \in 1..n |-> (data[i] + keystream[i]) % 256], 1, n)

(* bytes([b ^ k for b, k in zip(data, keystream)]) *)
XorBytes(data, keystream) ==
    LET n == IF Len(data) < Len(keystream) THEN Len(data) ELSE Len(keystream)
    IN  Tabulate([i \in 1..n |-> BitXor(data[i], keystream[i])], 1, n)

(* what a call of the cipher did: how it ended, what it returned, and the  *)
(* derivations, keystreams and tags it computed, in their order            *)
Outcome(kind, value, work) == [kind |-> kind, value |-> value, work |-> work]

(* encrypt *)
encrypt(data, secret_key, salt, mode) ==
    LET cml == _initialize_cml(secret_key, salt, mode)
        keystream == _generate_keystream_cml(cml, mode, Len(data))
        encrypted_data == XorBytes(data, keystream)
        hmac_key == PBKDF2(encode(secret_key), salt \o HMAC_DERIVE,
                           PBKDF2_ITERATIONS(mode), 32)
        mac == hmac_sha256(hmac_key, salt \o encrypted_data)
    IN  Outcome("blob", salt \o mac \o encrypted_data,
                <<"pbkdf2", "keystream", "pbkdf2", "hmac">>)

(* a decryption that generates the keystream and decrypts before it looks *)
(* at the tag                                                             *)
DecryptThenVerify(data, secret_key, mode) ==
    LET salt == SubSeq(data, 1, SALT_LENGTH)
        received_mac == SubSeq(data, SALT_LENGTH + 1, SALT_LENGTH + MAC_LENGTH)
        encrypted_data == SubSeq(data, SALT_LENGTH + MAC_LENGTH + 1, Len(data))
        cml == _initialize_cml(secret_key, salt, mode)
        keystream == _generate_keystream_cml(cml, mode, Len(encrypted_data))
        hmac_key == PBKDF2(encode(secret_key), salt \o HMAC_DERIVE,
                           PBKDF2_ITERATIONS(mode), 32)
        expected_mac == hmac_sha256(hmac_key, salt \o encrypted_data)
    IN  IF Len(data) < SALT_LENGTH + MAC_LENGTH
        THEN Outcome("MalformedBlob", <<>>, <<>>)
        ELSE IF ~compare_digest(expected_mac, received_mac)
        THEN Outcome("IntegrityFailure", XorBytes(encrypted_data, keystream),
                     <<"pbkdf2", "keystream", "pbkdf2", "hmac">>)
        ELSE Outcome("plaintext", XorBytes(encrypted_data, keystream),
                     <<"pbkdf2", "keystream", "pbkdf2", "hmac">>)

(* decrypt *)
decrypt(data, secret_key, mode) ==
    IF Len(data) < SALT_LENGTH + MAC_LENGTH
    THEN Outcome("MalformedBlob", <<>>, <<>>)
    ELSE LET salt == SubSeq(data, 1, SALT_LENGTH)
             received_mac == SubSeq(data, SALT_LENGTH + 1, SALT_LENGTH + MAC_LENGTH)
             encrypted_data == SubSeq(data, SALT_LENGTH + MAC_LENGTH + 1, Len(data))
             hmac_key == PBKDF2(encode(secret_key), salt \o HMAC_DERIVE,
                                PBKDF2_ITERATIONS(mode), 32)
             expected_mac == hmac_sha256(hmac_key, salt \o encrypted_data)
         IN  IF ~compare_digest(expected_mac, received_mac)
             THEN Outcome("IntegrityFailure", <<>>, <<"pbkdf2", "hmac">>)
             ELSE LET cml == _initialize_cml(secret_key, salt, mode)
                      keystream == _generate_keystream_cml(cml, mode, Len(encrypted_data))
                  IN  Outcome("plaintext", XorBytes(encrypted_data, keystream),
                              <<"pbkdf2", "hmac", "pbkdf2", "keystream">>)

(* a bytes object: its first bytes, and the number of zero bytes after them *)
Bytes(body, padding) == [body |-> body, padding |-> padding]
len(data) == Len(data.body) + data.padding

(* plaintexts of up to MaxPlainLen bytes, and one a byte over the limit *)
Plaintexts ==
    {Bytes(Tabulate([i \in 1..n |-> (i * 255) % 256], 1, n), 0) : n \in 0..MaxPlainLen}
       \cup {Bytes(<<0>>, MAX_DATA_MIB * 1024 * 1024)}

(* encrypt_with_validation; the parameters analysed at lines 294-303 are   *)
(* derived with a salt of their own and only logged                        *)
encrypt_with_validation(data, secret_key, salt, mode) ==
    IF ~validate_key_strength(secret_key) THEN Outcome("WeakKey", <<>>, <<>>)
    ELSE IF len(data) > MAX_DATA_MIB * 1024 * 1024 THEN Outcome("InputTooLarge", <<>>, <<>>)
    ELSE LET done == encrypt(data.body, secret_key, salt, mode)
         IN  Outcome(done.kind, done.value, <<"pbkdf2">> \o done.work)

(* decrypt_with_validation *)
decrypt_with_validation(data, secret_key, mode) ==
    IF ~validate_key_strength(secret_key) THEN Outcome("WeakKey", <<>>, <<>>)
    ELSE decrypt(data, secret_key, mode)

NoBlob == [state |-> "none"]
NoResult == [op |-> "none"]

(* the cipher module after import: PERFORMANCE_MODE is read once *)
ChaoticCipherInit ==
    /\ PERFORMANCE_MODE \in PerformanceModes
    /\ protected = NoBlob
    /\ cipher_result = NoResult

(* a caller encrypts data and keeps the blob *)
Encrypt(data, secret_key, salt) ==
    /\ cipher_result = NoResult
    /\ \E done \in {encrypt_with_validation(data, secret_key, salt, PERFORMANCE_MODE)} :
          /\ cipher_result' = [op |-> "encrypt", secret_key |-> secret_key,
                               length |-> len(data), kind |-> done.kind,
                               value |-> done.value, work |-> done.work]
          /\ protected' = IF done.kind = "blob"
                          THEN [state |-> "intact", blob |-> done.value,
                                data |-> data.body, secret_key |-> secret_key]
                          ELSE protected
    /\ UNCHANGED <<now, PERFORMANCE_MODE>>
    /\ UNCHANGED outsideCipher

(* a caller decrypts the blob as it is now *)
Decrypt(secret_key) ==
    /\ protected # NoBlob
    /\ \E done \in {decrypt_with_validation(protected.blob, secret_key, PERFORMANCE_MODE)} :
          cipher_result' = [op |-> "decrypt", secret_key |-> secret_key,
                            length |-> Len(protected.blob), kind |-> done.kind,
                            value |-> done.value, work |-> done.work]
    /\ UNCHANGED <<now, PERFORMANCE_MODE, protected>>
    /\ UNCHANGED outsideCipher

(* one byte of the stored blob is changed: a byte of the salt or of the    *)
(* ciphertext to another number, a byte of the tag to another tag byte     *)
ChangeByte(position, delta) ==
    /\ protected # NoBlob
    /\ protected.state = "intact"
    /\ position \in 1..Len(protected.blob)
    /\ LET old == protected.blob[position]
           new == IF position \in (SALT_LENGTH + 1)..(SALT_LENGTH + MAC_LENGTH)
                  THEN <<"changed", old, delta>>
                  ELSE (old + delta) % 256
       IN  protected' = [protected EXCEPT !.state = "byte changed",
                                          !.blob = [@ EXCEPT ![position] = new]]
    /\ UNCHANGED <<now, PERFORMANCE_MODE, cipher_result>>
    /\ UNCHANGED outsideCipher

(* the stored blob is cut short *)
Truncate(length) ==
    /\ protected # NoBlob
    /\ protected.state = "intact"
    /\ length < Len(protected.blob)
    /\ protected' = [protected EXCEPT !.state = "truncated",
                                      !.blob = SubSeq(@, 1, length)]
    /\ UNCHANGED <<now, PERFORMANCE_MODE, cipher_result>>
    /\ UNCHANGED outsideCipher

ByteDeltas == {1, 255}

(* the first and the last byte of the salt, of the tag and of the ciphertext *)
ChangedPositions ==
    {1, SALT_LENGTH, SALT_LENGTH + 1, SALT_LENGTH + MAC_LENGTH,
     SALT_LENGTH + MAC_LENGTH + 1, SALT_LENGTH + MAC_LENGTH + MaxPlainLen}

CipherNext ==
    \/ \E data \in Plaintexts, secret_key \in SecretKeys, salt \in Salts :
          Encrypt(data, secret_key, salt)
    \/ \E secret_key \in SecretKeys : Decrypt(secret_key)
    \/ \E position \in ChangedPositions, delta \in ByteDeltas :
          ChangeByte(position, delta)
    \/ \E length \in {0, SALT_LENGTH + MAC_LENGTH - 1} : Truncate(length)

----------------------------------------------------------------------------
(* Vocabulary of the properties of the cipher *)

(* a decryption of the stored blob just returned or raised *)
Decrypted == protected' = protected /\ protected # NoBlob /\ cipher_result'.op = "decrypt"

(* C16: for every performance mode, every password satisfying the strength *)
(* rule and every plaintext, decrypting the blob returned by encrypt with  *)
(* the same password and mode returns exactly the original plaintext.      *)
C16_RoundTrip ==
    [][(/\ Decrypted
        /\ protected.state = "intact"
        /\ cipher_result'.secret_key = protected.secret_key) =>
          /\ cipher_result'.kind = "plaintext"
          /\ cipher_result'.value = protected.data]_vars

(* a plaintext of the largest length came back from a blob whose           *)
(* ciphertext differs from it                                              *)
C16_Witness ==
    /\ protected # NoBlob
    /\ protected.state = "intact"
    /\ cipher_result.op = "decrypt"
    /\ cipher_result.kind = "plaintext"
    /\ cipher_result.value = protected.data
    /\ Len(protected.data) = MaxPlainLen
    /\ SubSeq(protected.blob, SALT_LENGTH + MAC_LENGTH + 1, Len(protected.blob))
          # protected.data

(* C17: after a change of one byte of the salt, of the MAC or of the       *)
(* ciphertext of a blob produced by encrypt, decrypt under the same        *)
(* password fails with IntegrityFailure and returns no plaintext.          *)
C17_TamperDetected ==
    [][(/\ Decrypted
        /\ protected.state = "byte changed"
        /\ cipher_result'.secret_key = protected.secret_key) =>
          /\ cipher_result'.kind = "IntegrityFailure"
          /\ cipher_result'.value = <<>>]_vars

(* the decryption of a blob with a changed byte failed under the password  *)
(* it was encrypted with                                                   *)
C17_Witness ==
    /\ protected # NoBlob
    /\ protected.state = "byte changed"
    /\ cipher_result.op = "decrypt"
    /\ cipher_result.secret_key = protected.secret_key
    /\ cipher_result.kind = "IntegrityFailure"

(* C31: decrypt rejects a blob shorter than 64 bytes as MalformedBlob       *)
(* without any computation; for a longer blob the tag over salt and        *)
(* ciphertext is computed and compared before the lattice state is derived *)
(* and before any keystream is generated; a call that fails returns no     *)
(* plaintext byte and has generated no keystream.                          *)
C31_VerifyBeforeDecrypt ==
    [][Decrypted =>
          LET res == cipher_result'
              at(step) == {i \in 1..Len(res.work) : res.work[i] = step}
          IN  /\ (validate_key_strength(res.secret_key) /\ res.length < 64) =>
                    (res.kind = "MalformedBlob" /\ res.work = <<>>)
              /\ res.kind # "plaintext" => (res.value = <<>> /\ at("keystream") = {})
              /\ res.kind = "plaintext" =>
                    /\ res.length >= 64
                    /\ at("hmac") # {} /\ at("keystream") # {}
                    /\ \A i \in at("hmac") : \A j \in at("keystream") : i < j
                    /\ \A j \in at("keystream") : \E i \in at("pbkdf2") : i < j
                    /\ Cardinality(at("pbkdf2")) = 2
                    /\ \E i \in at("pbkdf2") : \A k \in at("hmac") : k < i]_vars

(* a blob of 63 bytes was rejected as malformed under a strong password,   *)
(* and nothing was computed for it                                         *)
C31_Witness ==
    /\ protected # NoBlob
    /\ protected.state = "truncated"
    /\ Len(protected.blob) = 63
    /\ cipher_result.op = "decrypt"
    /\ cipher_result.kind = "MalformedBlob"
    /\ cipher_result.work = <<>>

(* the strength rule: at least 12 characters and at least 3 of the 4       *)
(* character classes                                                       *)
CharacterClasses(secret_key) ==
    {class \in {"lower", "upper", "digit", "other"} :
        \E i \in 1..Len(secret_key) :
           CASE class = "lower" -> islower(secret_key[i])
             [] class = "upper" -> isupper(secret_key[i])
             [] class = "digit" -> isdigit(secret_key[i])
             [] class = "other" -> ~isalnum(secret_key[i])}

Weak(secret_key) ==
    Len(secret_key) < 12 \/ Cardinality(CharacterClasses(secret_key)) < 3

(* C18: encryption and decryption reject a weak password with WeakKey, and *)
(* encryption rejects a plaintext larger than 50 MiB with InputTooLarge,   *)
(* in every case before any key derivation, keystream generation or MAC    *)
(* computation.                                                            *)
C18_RejectedBeforeDerivation ==
    cipher_result.op \in {"encrypt", "decrypt"} =>
       /\ Weak(cipher_result.secret_key) =>
             cipher_result.kind = "WeakKey" /\ cipher_result.work = <<>>
       /\ (/\ cipher_result.op = "encrypt"
           /\ ~Weak(cipher_result.secret_key)
           /\ cipher_result.length > 50 * 1024 * 1024) =>
             cipher_result.kind = "InputTooLarge" /\ cipher_result.work = <<>>

(* a stored blob was presented with a password of 12 characters that has   *)
(* two character classes, and was rejected                                 *)
C18_Witness ==
    /\ protected # NoBlob
    /\ cipher_result.op = "decrypt"
    /\ cipher_result.kind = "WeakKey"
    /\ Len(cipher_result.secret_key) = 12
    /\ cipher_result.work = <<>>

----------------------------------------------------------------------------
(***************************************************************************)
(* Progress of encrypt_audio_file (app/core/chaotic_audio_protection.py).  *)
(*                                                                         *)
(* One step of the model is one statement of the function that can raise,  *)
(* together with the update_progress call that follows it; a statement     *)
(* that raises is followed at once by the except block of lines 191-200.   *)
(***************************************************************************)

(* Bound of the progress model: the number of calls of encrypt_audio_file *)
MaxEpisodes == 2

ProgressTracks == {"t1", "t2"}

(* performance_mode as passed by the caller *)
RequestedModes == {"fast", "secure", "turbo"}

NotReturned == [ended |-> "not yet", success |-> FALSE]

NoEpisode == [pc |-> "returned", track_id |-> "none", performance_mode |-> "none",
              ciphertext |-> FALSE, written |-> FALSE, result |-> NotReturned]

(* lines 180-189 and 196-200: the dict a call returns *)
ReturnedDict(success) == [ended |-> "return", success |-> success]

(* update_progress *)
update_progress(storage, track_id, progress, step, mode) ==
    [t \in DOMAIN storage \cup {track_id} |->
        IF t = track_id
        THEN [track_id |-> track_id,
              status |-> IF progress < 100 THEN "processing" ELSE "completed",
              progress_percent |-> progress,
              current_step |-> step,
              performance_mode |-> mode]
        ELSE storage[t]]

(* lines 191-194: the except block *)
ExceptBlock ==
    /\ _progress_storage' =
          [update_progress(_progress_storage, episode.track_id, 0, "Encryption failed",
                           episode.performance_mode)
             EXCEPT ![episode.track_id].status = "failed"]
    /\ published' = Append(published, 0)
    /\ episode' = [episode EXCEPT !.pc = "returned", !.result = ReturnedDict(FALSE)]

(* the statement at pc ran: progress is published, the function goes on *)
Proceed(progress, step, next) ==
    /\ _progress_storage' =
          update_progress(_progress_storage, episode.track_id, progress, step,
                          episode.performance_mode)
    /\ published' = Append(published, progress)
    /\ episode' = [episode EXCEPT !.pc = next]

ProgressStorageInit ==
    /\ _progress_storage = EmptyMap
    /\ episode = NoEpisode
    /\ published = <<>>
    /\ episodes = 0
    /\ output_files = [t \in ProgressTracks |-> "absent"]

(* lines 108-125: the call, os.path.getsize and the first update *)
Initialize(track_id, performance_mode, raises) ==
    /\ episode.pc = "returned"
    /\ episodes < MaxEpisodes
    /\ episodes' = episodes + 1
    /\ LET mode == IF performance_mode \in {"fast", "balanced", "secure"}
                   THEN performance_mode ELSE "balanced"
           entered == [pc |-> "getsize", track_id |-> track_id, performance_mode |-> mode,
                       ciphertext |-> FALSE, written |-> FALSE, result |-> NotReturned]
       IN  IF raises
           THEN /\ _progress_storage' =
                      [update_progress(_progress_storage, track_id, 0, "Encryption failed",
                                       mode)
                         EXCEPT ![track_id].status = "failed"]
                /\ published' = <<0>>
                /\ episode' = [entered EXCEPT !.pc = "returned",
                                               !.result = ReturnedDict(FALSE)]
           ELSE /\ _progress_storage' =
                      update_progress(_progress_storage, track_id, 0,
                                      "Initializing encryption", mode)
                /\ published' = <<0>>
                /\ episode' = [entered EXCEPT !.pc = "initialized"]
    /\ UNCHANGED <<now, output_files>>
    /\ UNCHANGED outsideProgress

(* line 128 *)
AnnounceHash ==
    /\ episode.pc = "initialized"
    /\ Proceed(10, "Calculating file hash", "sha256")
    /\ UNCHANGED <<now, episodes, output_files>>
    /\ UNCHANGED outsideProgress

(* lines 132-137: calculate_file_sha256 *)
CalculateHash(raises) ==
    /\ episode.pc = "sha256"
    /\ IF raises THEN ExceptBlock
       ELSE Proceed(20, "Generating encryption key", "key")
    /\ UNCHANGED <<now, episodes, output_files>>
    /\ UNCHANGED outsideProgress

(* lines 139-144: create_audio_protection_key *)
GenerateKey(raises) ==
    /\ episode.pc = "key"
    /\ IF raises THEN ExceptBlock
       ELSE Proceed(30, "Reading audio file", "read")
    /\ UNCHANGED <<now, episodes, output_files>>
    /\ UNCHANGED outsideProgress

(* lines 146-152: the input file is read *)
ReadFile(raises) ==
    /\ episode.pc = "read"
    /\ IF raises THEN ExceptBlock
       ELSE Proceed(40, "Encrypting", "encrypt")
    /\ UNCHANGED <<now, episodes, output_files>>
    /\ UNCHANGED outsideProgress

(* lines 164-169: encrypt_with_validation returns the ciphertext or raises *)
EncryptData(raises) ==
    /\ episode.pc = "encrypt"
    /\ IF raises THEN ExceptBlock
       ELSE /\ _progress_storage' =
                  update_progress(_progress_storage, episode.track_id, 95,
                                  "Writing encrypted file", episode.performance_mode)
            /\ published' = Append(published, 95)
            /\ episode' = [episode EXCEPT !.pc = "write", !.ciphertext = TRUE]
    /\ UNCHANGED <<now, episodes, output_files>>
    /\ UNCHANGED outsideProgress

(* lines 171-189: the output file is written *)
WriteFile(raises) ==
    /\ episode.pc = "write"
    /\ IF raises
       THEN /\ ExceptBlock
            /\ \E opened \in BOOLEAN :
                  output_files' = IF opened
                                  THEN [output_files EXCEPT ![episode.track_id] = "partial"]
                                  ELSE output_files
       ELSE /\ _progress_storage' =
                  update_progress(_progress_storage, episode.track_id, 100,
                                  "Encryption completed", episode.performance_mode)
            /\ published' = Append(published, 100)
            /\ episode' = [episode EXCEPT !.pc = "returned", !.written = TRUE,
                                           !.result = ReturnedDict(TRUE)]
            /\ output_files' = [output_files EXCEPT ![episode.track_id] = "ciphertext"]
    /\ UNCHANGED <<now, episodes>>
    /\ UNCHANGED outsideProgress

ProgressNext ==
    \/ \E track_id \in ProgressTracks, performance_mode \in RequestedModes,
          raises \in BOOLEAN : Initialize(track_id, performance_mode, raises)
    \/ AnnounceHash
    \/ \E raises \in BOOLEAN : CalculateHash(raises)
    \/ \E raises \in BOOLEAN : GenerateKey(raises)
    \/ \E raises \in BOOLEAN : ReadFile(raises)
    \/ \E raises \in BOOLEAN : EncryptData(raises)
    \/ \E raises \in BOOLEAN : WriteFile(raises)

(* a step of the episode failed and the call is over *)
EpisodeFailed ==
    /\ episode.pc = "returned"
    /\ episode.result.ended # "not yet"
    /\ ~episode.written

(* C21: when a step of encrypt-file fails, the last progress record        *)
(* published for the track has status failed and the error is propagated   *)
(* to the caller: the call does not return a result; and no record of the  *)
(* failed episode with status completed was published.                     *)
C21_FailurePropagates ==
    EpisodeFailed =>
       /\ _progress_storage[episode.track_id].status = "failed"
       /\ episode.result.ended = "raise"
       /\ \A i \in 1..Len(published) : published[i] < 100

(* C22: after a failed encrypt-file call no file written by that call      *)
(* remains at the output path; the output path holds the call's result     *)
(* only after the call succeeded.                                          *)
C22_NoPartialOutput ==
    /\ EpisodeFailed => output_files[episode.track_id] # "partial"
    /\ \A t \in ProgressTracks :
          output_files[t] = "ciphertext" =>
             \/ episode.track_id # t
             \/ episode.pc = "returned"

(* C19: within one encrypt-file episode the progress_percent values        *)
(* published for the track never decrease, on the success path and on the  *)
(* failure path alike; a value of at least 90 is published only after the  *)
(* ciphertext was produced and 100 only after the output file was written. *)
C19_ProgressMonotone ==
    /\ \A i \in 1..Len(published) : \A j \in i..Len(published) :
          published[i] <= published[j]
    /\ \A i \in 1..Len(published) :
          /\ published[i] >= 90 => episode.ciphertext
          /\ published[i] = 100 => episode.written

----------------------------------------------------------------------------
(***************************************************************************)
(* Concurrent calls of SessionManager.create_session.                      *)
(*                                                                         *)
(* The request handlers run on one event loop.  A handler that called      *)
(* create_session runs its statements one after the other; another         *)
(* handler runs only when the running one returned or reached an await.    *)
(***************************************************************************)

(* Bound: the number of calls of create_session *)
MaxLogins == 7

Handlers == {"h1", "h2"}

NoHandler == "none"

NotCalling == [pc |-> "idle", user_id |-> "none", current_sessions |-> {}]

(* the program points of create_session at which the handler awaits: the   *)
(* method is a plain def and contains no await                             *)
SuspendsAfterCount == {"check"}

SuspensionPoints == {}

(* who runs next after handler h moved to program point point *)
Scheduled(h, point) == IF point = "idle" \/ point \in SuspensionPoints THEN NoHandler ELSE h

MayRun(h) == running \in {NoHandler, h}

ConcurrentLoginInit ==
    /\ login = [h \in Handlers |-> NotCalling]
    /\ running = NoHandler

(* lines 29-43: the call, and _cleanup_expired_sessions *)
EnterCreateSession(h, u) ==
    /\ MayRun(h)
    /\ login[h].pc = "idle"
    /\ next_sid <= MaxLogins
    /\ Install(_cleanup_expired_sessions(Here))
    /\ session_cleanup' = IF SessionSweepDue THEN now ELSE session_cleanup
    /\ login' = [login EXCEPT ![h] = [pc |-> "count", user_id |-> u,
                                      current_sessions |-> {}]]
    /\ running' = Scheduled(h, "count")
    /\ UNCHANGED <<now, next_sid, validation, ever_revoked, calls, workload,
                   session_timeout_minutes>>
    /\ UNCHANGED outsideLogin

(* line 46: current_sessions = self._get_user_sessions(user_id) *)
CountSessions(h) ==
    /\ MayRun(h)
    /\ login[h].pc = "count"
    /\ Install(_get_user_sessions(Here, login[h].user_id))
    /\ login' = [login EXCEPT ![h].pc = "check",
                              ![h].current_sessions = LiveOf(Here, login[h].user_id)]
    /\ running' = Scheduled(h, "check")
    /\ UNCHANGED <<now, session_cleanup, next_sid, validation, ever_revoked, calls,
                   workload, session_timeout_minutes>>
    /\ UNCHANGED outsideLogin

(* lines 47-51: the limit check and the revocation of the oldest session *)
CheckLimit(h) ==
    /\ MayRun(h)
    /\ login[h].pc = "check"
    /\ \E st \in {IF AtSessionLimit(Cardinality(login[h].current_sessions))
                  THEN revoke_session(Here, Oldest(Here, login[h].current_sessions),
                                      "session_limit_exceeded")
                  ELSE Here} :
          /\ Install(st)
          /\ ever_revoked' = NewlyRevoked(st)
    /\ login' = [login EXCEPT ![h].pc = "insert"]
    /\ running' = Scheduled(h, "insert")
    /\ UNCHANGED <<now, session_cleanup, next_sid, validation, calls, workload,
                   session_timeout_minutes>>
    /\ UNCHANGED outsideLogin

(* lines 53-81: the new session is stored and the call returns *)
InsertSession(h) ==
    /\ MayRun(h)
    /\ login[h].pc = "insert"
    /\ LET u == login[h].user_id
           session_id == next_sid
           session_data == [user_id |-> u, client_ip |-> ClientOf(u),
                            created_at |-> <<now, session_id>>, last_accessed |-> now,
                            expires_at |-> now + session_timeout_minutes * 60,
                            access_count |-> 0, is_active |-> TRUE,
                            revoked_at |-> NoTime, revoke_reason |-> "none"]
       IN  Install(Stores([sid \in DOMAIN active_sessions \cup {session_id} |->
                              IF sid = session_id THEN session_data
                              ELSE active_sessions[sid]],
                          revoked_sessions,
                          [v \in DOMAIN user_sessions \cup {u} |->
                              IF v = u
                              THEN (IF u \in DOMAIN user_sessions THEN user_sessions[u]
                                    ELSE {}) \cup {session_id}
                              ELSE user_sessions[v]]))
    /\ next_sid' = next_sid + 1
    /\ login' = [login EXCEPT ![h] = NotCalling]
    /\ running' = Scheduled(h, "idle")
    /\ UNCHANGED <<now, session_cleanup, validation, ever_revoked, calls, workload,
                   session_timeout_minutes>>
    /\ UNCHANGED outsideLogin

(* another session operation: a handler calls revoke_session *)
Logout(h, sid) ==
    /\ MayRun(h)
    /\ login[h].pc = "idle"
    /\ sid \in DOMAIN active_sessions
    /\ sid \notin revoked_sessions
    /\ \E st \in {revoke_session(Here, sid, "manual")} :
          /\ Install(st)
          /\ ever_revoked' = NewlyRevoked(st)
    /\ UNCHANGED <<now, login, running, session_cleanup, next_sid, validation, calls,
                   workload, session_timeout_minutes>>
    /\ UNCHANGED outsideLogin

LoginNext ==
    \/ \E h \in Handlers, u \in NewUsers : EnterCreateSession(h, u)
    \/ \E h \in Handlers : CountSessions(h)
    \/ \E h \in Handlers : CheckLimit(h)
    \/ \E h \in Handlers : InsertSession(h)
    \/ \E h \in Handlers, sid \in 1..MaxLogins : Logout(h, sid)

(* the sessions of u evicted for the session limit *)
EvictedOf(u) ==
    {sid \in DOMAIN active_sessions :
        /\ active_sessions[sid].user_id = u
        /\ active_sessions[sid].revoke_reason = "session_limit_exceeded"}

(* C20: session operations behave as if executed one at a time: between    *)
(* the count check, the revocation of the oldest session and the insertion *)
(* of the new session of a create_session call no other session operation  *)
(* runs, so that concurrent calls never leave a user with more than        *)
(* max_sessions_per_user live sessions, and a call evicts a session only   *)
(* of a user who is at the limit, and then one session.                    *)
C20_OneAtATime ==
    [][/\ Cardinality({h \in Handlers : login'[h].pc # "idle"}) <= 1
       /\ \A u \in Users :
             /\ Cardinality(LiveSessionsOf(u)') <= max_sessions_per_user
             /\ EvictedOf(u)' # EvictedOf(u) =>
                   /\ Cardinality(LiveSessionsOf(u)) = max_sessions_per_user
                   /\ Cardinality(EvictedOf(u)') = Cardinality(EvictedOf(u)) + 1]_vars

(* two handlers have called create_session, a session of the user was      *)
(* evicted for the limit, and the user is at the limit again               *)
C20_Witness ==
    /\ \E u \in Users :
          /\ EvictedOf(u) # {}
          /\ Cardinality(LiveSessionsOf(u)) = max_sessions_per_user
          /\ \E a, b \in LiveSessionsOf(u) : a # b
    /\ \A h \in Handlers : login[h].pc = "idle"
    /\ next_sid > max_sessions_per_user + 2

----------------------------------------------------------------------------
(***************************************************************************)
(* FileLockManager.wait_for_processing_completion, running on the event    *)
(* loop beside two callers of acquire_processing_lock.  The wall clock     *)
(* advances while the waiting coroutine sleeps.                            *)
(***************************************************************************)

(* Bound: the number of calls of wait_for_processing_completion *)
MaxWaits == 1

(* the values of max_wait_seconds passed, the tracks waited for, and how   *)
(* long asyncio.sleep(1) takes until the coroutine runs again              *)
WaitLimits == {0, 2}
WaitedTracks == {"t1"}
SleepSeconds == {1, 2}

(* the callers that acquire locks meanwhile: c1 encrypts t1 for u1; c4     *)
(* encrypts or decrypts t1, or encrypts t4                                 *)
Processors == {"c1", "c4"}

NoStatus == [is_processing |-> FALSE]

NotWaiting == [pc |-> "idle", track_id |-> "none", start_time |-> 0,
               max_wait_seconds |-> 0, polls |-> <<>>, result |-> "none"]

(* a status lookup that sees the records of the encryption only *)
StatusOfEncryption(locks, track_id) ==
    IF \E lock_key \in DOMAIN locks :
          locks[lock_key].track_id = track_id /\ locks[lock_key].operation = "enc"
    THEN [is_processing |-> TRUE]
    ELSE NoStatus

(* get_processing_status: the first record of the track, under whichever   *)
(* operation, or None                                                      *)
get_processing_status(locks, track_id) ==
    IF \E lock_key \in DOMAIN locks : locks[lock_key].track_id = track_id
    THEN [is_processing |-> TRUE]
    ELSE NoStatus

(* line 217: start_time = time.time() *)
StartWait(track_id, max_wait_seconds) ==
    /\ completion.pc = "idle"
    /\ waits < MaxWaits
    /\ waits' = waits + 1
    /\ completion' = [pc |-> "loop", track_id |-> track_id, start_time |-> now,
                      max_wait_seconds |-> max_wait_seconds, polls |-> <<>>,
                      result |-> "none"]
    /\ UNCHANGED now
    /\ UNCHANGED outsideWait

(* lines 219-226: the loop test, the poll, and the return or the call of   *)
(* asyncio.sleep                                                           *)
Poll ==
    /\ completion.pc = "loop"
    /\ IF now - completion.start_time < completion.max_wait_seconds
       THEN LET status == get_processing_status(processing_locks, completion.track_id)
            IN  IF ~status.is_processing
                THEN completion' = [completion EXCEPT !.pc = "idle", !.result = "True",
                                                      !.polls = Append(@, FALSE)]
                ELSE completion' = [completion EXCEPT !.pc = "sleeping",
                                                      !.polls = Append(@, TRUE)]
       ELSE completion' = [completion EXCEPT !.pc = "idle", !.result = "False"]
    /\ UNCHANGED <<now, waits>>
    /\ UNCHANGED outsideWait

(* line 224: asyncio.sleep(1) is over, seconds later *)
Wake(seconds) ==
    /\ completion.pc = "sleeping"
    /\ now' = now + seconds
    /\ completion' = [completion EXCEPT !.pc = "loop"]
    /\ UNCHANGED waits
    /\ UNCHANGED outsideWait

WaitForCompletionInit ==
    /\ completion = NotWaiting
    /\ waits = 0

WaitNext ==
    \/ \E track_id \in WaitedTracks, max_wait_seconds \in WaitLimits :
          StartWait(track_id, max_wait_seconds)
    \/ Poll
    \/ \E seconds \in SleepSeconds : Wake(seconds)
    \/ \E c \in Processors : \E r \in RequestsOf(c) : Begin(c, r.track, r.user, r.op)
    \/ \E c \in Processors : TryAcquire(c)
    \/ \E c \in Processors : Resume(c)
    \/ \E c \in Processors : Exit(c)
    \/ \E c \in Processors, why \in AbortKinds : Abort(c, why)

(* the event loop runs a coroutine that is ready, and a sleep ends *)
WaitFairness == WF_vars(Poll) /\ WF_vars(\E seconds \in SleepSeconds : Wake(seconds))

----------------------------------------------------------------------------
(* Vocabulary of the properties of the wait for completion *)

(* a lock record of the waited track exists, under whichever operation *)
Busy == \E k \in DOMAIN processing_locks : processing_locks[k].track_id = completion.track_id

TimeIsUp == now - completion.start_time >= completion.max_wait_seconds

(* the waiting coroutine takes a step *)
WaitStep == completion' # completion

(* C29: wait_for_processing_completion returns true exactly at the first   *)
(* poll that finds no lock record of the track under any operation,        *)
(* returns false exactly when max_wait_seconds have elapsed and every poll *)
(* made before found a record, never changes the lock records, the         *)
(* processing sets, the mutexes or the callers, and always returns.        *)
C29_WaitTerminates ==
    /\ [][WaitStep => UNCHANGED lockState]_vars
    /\ [][(WaitStep /\ completion.pc = "loop") =>
             /\ (~TimeIsUp /\ ~Busy) =>
                   (completion'.pc = "idle" /\ completion'.result = "True")
             /\ (~TimeIsUp /\ Busy) => completion'.pc = "sleeping"
             /\ TimeIsUp => (completion'.pc = "idle" /\ completion'.result = "False")
             /\ completion'.result = "False" =>
                   \A i \in 1..Len(completion.polls) : completion.polls[i]]_vars
    /\ [](completion.pc # "idle" => completion.result = "none")
    /\ (completion.pc # "idle") ~> (completion.pc = "idle")

(* a wait found the track busy at its first poll and free at its second,   *)
(* and returned true                                                       *)
C29_Witness ==
    /\ completion.pc = "idle"
    /\ completion.result = "True"
    /\ completion.polls = <<TRUE, FALSE>>

----------------------------------------------------------------------------
(***************************************************************************)
(* Secure error handler (app/core/error_handler.py).  A response is the    *)
(* status code and the content of the JSONResponse; strings are kept       *)
(* whole, an f-string is the tuple of its parts.                           *)
(***************************************************************************)

(* Bound of the error-handler model: the number of calls of handle_exception *)
MaxHandled == 2

(* lines 14-27 *)
GENERIC_ERROR_MESSAGES ==
    [status_code \in {400, 401, 403, 404, 405, 409, 413, 415, 429, 500, 502, 503} |->
        CASE status_code = 400 -> "Invalid request parameters"
          [] status_code = 401 -> "Authentication required"
          [] status_code = 403 -> "Access denied"
          [] status_code = 404 -> "Resource not found"
          [] status_code = 405 -> "Method not allowed"
          [] status_code = 409 -> "Resource conflict"
          [] status_code = 413 -> "Request entity too large"
          [] status_code = 415 -> "Unsupported media type"
          [] status_code = 429 -> "Too many requests"
          [] status_code = 500 -> "Internal server error"
          [] status_code = 502 -> "Bad gateway"
          [] OTHER -> "Service unavailable"]

(* the exceptions handled: HTTPException with a status code that has a     *)
(* generic message or has none (418), ValueError, and two other classes;   *)
(* for an exception that is no HTTPException status_code is not read       *)
Details == {"track 42 of user u1 not found", "SELECT failed at /srv/app/db.py"}
HttpStatusCodes == {400, 404, 418, 500}
Exceptions ==
    [type : {"HTTPException"}, status_code : HttpStatusCodes, detail : Details]
       \cup [type : {"ValueError", "KeyError", "RuntimeError"}, status_code : {0},
             detail : Details]

(* the request: its path, its client address and its user agent *)
Requests == {[path |-> "/api/tracks", client_ip |-> "10.0.0.1", user_agent |-> "curl"]}

(* _generate_error_id: the first 8 characters of a random UUID *)
ErrorIds == {"1a2b3c4d", "9f8e7d6c"}

None == "None"

(* dict.get(status_code, "Error occurred") *)
GenericMessage(status_code) ==
    IF status_code \in DOMAIN GENERIC_ERROR_MESSAGES
    THEN GENERIC_ERROR_MESSAGES[status_code] ELSE "Error occurred"

(* a choice of the details to show that ignores the deployment *)
ShowWhenAsked(include_details, production) == include_details

(* line 53 *)
ShowDetails(include_details, production) == include_details /\ ~production

(* lines 59-95: the response to an HTTPException *)
HttpResponse(request, exc, show_details, production) ==
    LET response_data == [error |-> TRUE, status_code |-> exc.status_code,
                          message |-> IF show_details THEN exc.detail
                                      ELSE GenericMessage(exc.status_code),
                          error_id |-> None, timestamp |-> now, path |-> request.path,
                          debug |-> None]
    IN  [status_code |-> exc.status_code,
         content |-> IF show_details /\ ~production
                     THEN [response_data EXCEPT !.debug =
                              <<"exception_type", exc.type, "original_detail", exc.detail>>]
                     ELSE response_data]

(* lines 97-115: the response to a ValueError *)
ValidationResponse(request, exc, show_details) ==
    [status_code |-> 400,
     content |-> [error |-> TRUE, status_code |-> 400,
                  message |-> IF show_details THEN exc.detail ELSE "Invalid input data",
                  error_id |-> None, timestamp |-> now, path |-> request.path,
                  debug |-> None]]

(* lines 117-156: the response to any other exception *)
UnexpectedResponse(request, exc, show_details, production, error_id) ==
    LET response_data == [error |-> TRUE, status_code |-> 500,
                          message |-> "An unexpected error occurred",
                          error_id |-> IF show_details THEN error_id ELSE None,
                          timestamp |-> now, path |-> request.path, debug |-> None]
    IN  [status_code |-> 500,
         content |-> IF show_details /\ ~production
                     THEN [response_data EXCEPT !.debug =
                              <<"exception_type", exc.type, "error_message", exc.detail,
                                "stack_trace", <<"Traceback", exc.type, exc.detail>>>>]
                     ELSE response_data]

(* lines 63-74, 99-102, 122-130: the lines written to the log *)
LogLines(request, exc, show_details, production, error_id) ==
    CASE exc.type = "HTTPException" ->
            IF exc.status_code \in {401, 403, 404}
            THEN <<<<"warning", "Security event", exc.status_code, request.path,
                     request.client_ip, request.user_agent,
                     IF show_details THEN exc.detail ELSE "hidden">>>>
            ELSE IF exc.status_code >= 500
            THEN <<<<"error", "Server error", exc.status_code, request.path,
                     request.client_ip, exc.detail>>>>
            ELSE <<>>
      [] exc.type = "ValueError" ->
            <<<<"warning", "Validation error", request.path, request.client_ip,
                IF show_details THEN exc.detail ELSE "validation failed">>>>
      [] OTHER ->
            <<<<"error", "Unexpected error", error_id, request.path, request.client_ip,
                exc.type, exc.detail>>>>
              \o (IF ~production
                  THEN <<<<"error", "Stack trace", error_id,
                           <<"Traceback", exc.type, exc.detail>>>>>>
                  ELSE <<>>)

(* handle_exception *)
handle_exception(request, exc, include_details, error_id) ==
    /\ Len(responses) < MaxHandled
    /\ LET show_details == ShowDetails(include_details, IS_PRODUCTION)
           response ==
              CASE exc.type = "HTTPException" ->
                      HttpResponse(request, exc, show_details, IS_PRODUCTION)
                [] exc.type = "ValueError" -> ValidationResponse(request, exc, show_details)
                [] OTHER -> UnexpectedResponse(request, exc, show_details, IS_PRODUCTION,
                                               error_id)
       IN  /\ responses' = Append(responses,
                                  [exc |-> exc, include_details |-> include_details,
                                   response |-> response])
           /\ error_log' = LogLines(request, exc, show_details, IS_PRODUCTION, error_id)
    /\ UNCHANGED <<now, IS_PRODUCTION>>
    /\ UNCHANGED outsideError

(* the module after import, in production or in development *)
ErrorHandlerInit ==
    /\ IS_PRODUCTION \in BOOLEAN
    /\ responses = <<>>
    /\ error_log = <<>>

ErrorNext ==
    \E request \in Requests, exc \in Exceptions, include_details \in BOOLEAN,
       error_id \in ErrorIds :
       handle_exception(request, exc, include_details, error_id)

----------------------------------------------------------------------------
(* Vocabulary of the properties of the error handler *)

(* the error kind of an exception: the status code of an HTTPException,    *)
(* Validation for a ValueError, Internal for every other exception         *)
KindOf(exc) ==
    CASE exc.type = "HTTPException" -> <<"HTTP", exc.status_code>>
      [] exc.type = "ValueError" -> <<"Validation", 400>>
      [] OTHER -> <<"Internal", 500>>

ExceptionTypes == {exc.type : exc \in Exceptions}

----------------------------------------------------------------------------
(***************************************************************************)
(* The diffusion step of the keystream generator (chaotic_cipher.py, lines *)
(* 136-141), applied to every value the mixing of the nodes can leave in   *)
(* byte_val.                                                               *)
(***************************************************************************)

ByteValues == 0..255

MixedByte(byte_val) == [pc |-> "mixed", byte_val |-> byte_val, chunk_data |-> <<>>]

(* lines 136-141: the additional mixing and the store into the chunk *)
StoreByte ==
    /\ diffusion.pc = "mixed"
    /\ diffusion' = [diffusion EXCEPT
                        !.pc = "stored",
                        !.chunk_data = <<(IF PERFORMANCE_MODE # "fast"
                                          THEN Diffuse(diffusion.byte_val)
                                          ELSE diffusion.byte_val) % 256>>]
    /\ UNCHANGED <<now, cipherState>>
    /\ UNCHANGED outsideDiffusion

(* the mixing of the nodes left any byte value *)
KeystreamByteInit == diffusion \in {MixedByte(byte_val) : byte_val \in ByteValues}

DiffusionNext == StoreByte

----------------------------------------------------------------------------
(* 8-bit shifts *)
ShiftLeft(b) == (b * 2) % 256
ShiftRight(b) == b \div 2

(* C33: in the balanced and the secure mode the byte stored for a mixed    *)
(* value b is b XOR (b << 1 mod 256) XOR (b >> 1), both shifts taken of b.  *)
C33_DiffusionOfSameValue ==
    (diffusion.pc = "stored" /\ PERFORMANCE_MODE # "fast") =>
       diffusion.chunk_data[1]
          = BitXor(BitXor(diffusion.byte_val, ShiftLeft(diffusion.byte_val)),
                   ShiftRight(diffusion.byte_val))

----------------------------------------------------------------------------
(***************************************************************************)
(* The performance mode of ChaoticAudioProtection.encrypt_audio_file and   *)
(* decrypt_audio_file (app/core/chaotic_audio_protection.py).  The methods *)
(* are synchronous; two worker threads call them, one after the other or   *)
(* at the same time.  chaotic_cipher is imported at line 17 of the module, *)
(* before any call.                                                        *)
(***************************************************************************)

(* Bound: the number of calls of encrypt_audio_file and decrypt_audio_file *)
MaxFileCalls == 3

Workers == {"w1", "w2"}

Absent == "absent"

FileOperations == {"encrypt_audio_file", "decrypt_audio_file"}

NoParameters == [lattice_size |-> 0, transient_steps |-> 0, pbkdf2_iterations |-> 0,
                 mixing |-> "none"]

NoFileCall == [pc |-> "idle", op |-> "none", performance_mode |-> "none",
               used |-> NoParameters]

(* chaotic_cipher.py lines 17-34, 105, 112 and 129-139: the constants and  *)
(* the mixing policy of a mode                                             *)
CipherParameters(mode) ==
    [lattice_size |-> LATTICE_SIZE(mode), transient_steps |-> TRANSIENT_STEPS(mode),
     pbkdf2_iterations |-> PBKDF2_ITERATIONS(mode),
     mixing |-> IF mode = "fast" THEN "xor" ELSE "rotate and diffuse"]

(* chaotic_cipher.py line 17: os.environ.get(..., 'balanced').lower() *)
ModeAtImport(value) == IF value = Absent THEN "balanced" ELSE value

(* lines 110-116 and 219-220: the mode is validated by encrypt_audio_file  *)
(* only, and written to the environment                                    *)
EnterFileCall(w, op, performance_mode) ==
    /\ file_call[w].pc = "idle"
    /\ file_calls < MaxFileCalls
    /\ file_calls' = file_calls + 1
    /\ LET mode == IF op = "encrypt_audio_file"
                      /\ performance_mode \notin {"fast", "balanced", "secure"}
                   THEN "balanced" ELSE performance_mode
       IN  /\ environ' = mode
           /\ file_call' = [file_call EXCEPT ![w] =
                               [pc |-> "entered", op |-> op, performance_mode |-> mode,
                                used |-> NoParameters]]
    /\ UNCHANGED <<now, cipherState>>
    /\ UNCHANGED outsideMode

(* lines 164 and 239: encrypt_with_validation and decrypt_with_validation  *)
(* run with the constants their module bound at import                     *)
RunCipher(w) ==
    /\ file_call[w].pc = "entered"
    /\ file_call' = [file_call EXCEPT ![w].pc = "ciphered",
                                      ![w].used = CipherParameters(PERFORMANCE_MODE)]
    /\ UNCHANGED <<now, cipherState, environ, file_calls>>
    /\ UNCHANGED outsideMode

(* lines 201-204 and 261-264: the finally clause deletes the variable, and *)
(* the call returns                                                        *)
LeaveFileCall(w) ==
    /\ file_call[w].pc \in {"entered", "ciphered"}
    /\ environ' = Absent
    /\ file_call' = [file_call EXCEPT ![w] = NoFileCall]
    /\ UNCHANGED <<now, cipherState, file_calls>>
    /\ UNCHANGED outsideMode

(* the process after the import of the modules: the environment may name a *)
(* mode, and the cipher module has read it                                 *)
PerformanceModeInit ==
    /\ environ \in {Absent, "fast", "secure"}
    /\ PERFORMANCE_MODE = ModeAtImport(environ)
    /\ protected = NoBlob
    /\ cipher_result = NoResult
    /\ file_call = [w \in Workers |-> NoFileCall]
    /\ file_calls = 0

ModeNext ==
    \/ \E w \in Workers, op \in FileOperations, performance_mode \in RequestedModes :
          EnterFileCall(w, op, performance_mode)
    \/ \E w \in Workers : RunCipher(w)
    \/ \E w \in Workers : LeaveFileCall(w)

----------------------------------------------------------------------------
(* C35: the cipher of an encrypt-file or decrypt-file call runs with the   *)
(* lattice size, the transient steps, the PBKDF2 iterations and the mixing *)
(* policy of the performance_mode of that call, whatever the environment   *)
(* was at import and whatever other calls run before it or beside it.      *)
C35_ParametersOfTheCall ==
    \A w \in Workers :
       file_call[w].pc = "ciphered" =>
          file_call[w].used = CipherParameters(file_call[w].performance_mode)

----------------------------------------------------------------------------
(***************************************************************************)
(* _generate_keystream_cml statement by statement                          *)
(* (app/core/chaotic_cipher.py lines 91-145), called by two worker threads *)
(* that may be handed the same numpy arrays.  An array is an object with   *)
(* an identity: a name refers to an array, x.copy() and every numpy        *)
(* expression make a new one.  The arrays a call makes are only reachable  *)
(* from that call, so they are kept under one identity per worker.         *)
(***************************************************************************)

(* Bound: the number of calls of _generate_keystream_cml *)
MaxKeystreams == 2

LatticeNames == {"a", "b"}

KeystreamLengths == {1, 2}

(* the modes the generator is run in: 'secure' takes the branches of       *)
(* 'balanced' at every test of PERFORMANCE_MODE, on a larger lattice       *)
GeneratorModes == {"fast", "balanced"}

InputIds == {<<"x", "a">>, <<"r", "a">>, <<"x", "b">>, <<"r", "b">>}

Local(w) == <<"local", w>>

ArrayIds == InputIds \cup {Local(w) : w \in Workers}

(* the arrays of two lattices, as _initialize_cml returns them *)
LatticeOf(name, mode) ==
    _initialize_cml(IF name = "a" THEN StrongKey ELSE OtherStrongKey,
                    Repeat(0, SALT_LENGTH), mode)

NoGenerator == [pc |-> "idle", x |-> <<>>, r |-> <<>>, epsilon |-> 0, length |-> 0,
                x_current |-> <<>>, keystream |-> <<>>, given |-> <<>>]

NoKeystream == [given |-> <<>>, keystream |-> <<>>]

(* a working lattice that is the input array itself *)
alias(w, id) == id

(* line 95: x.copy() is a new array of the call *)
copy(w, id) == Local(w)

(* line 95: x_current = x.copy() *)
StartKeystream(w, name, length) ==
    /\ generator[w].pc = "idle"
    /\ generated < MaxKeystreams
    /\ generated' = generated + 1
    /\ LET x == <<"x", name>>
           r == <<"r", name>>
           epsilon == LatticeOf(name, PERFORMANCE_MODE).epsilon
           x_current == copy(w, x)
       IN  /\ arrays' = [arrays EXCEPT ![x_current] = arrays[x]]
           /\ generator' = [generator EXCEPT ![w] =
                  [pc |-> "copied", x |-> x, r |-> r, epsilon |-> epsilon,
                   length |-> length, x_current |-> x_current, keystream |-> <<>>,
                   given |-> <<arrays[x], arrays[r], epsilon, length>>]]
    /\ UNCHANGED <<now, cipherState, keystreams>>
    /\ UNCHANGED outsideKeystream

(* lines 98-107: the transient phase; every assignment binds x_current to  *)
(* the new array of its right-hand side                                    *)
Settle(w) ==
    /\ generator[w].pc = "copied"
    /\ LET g == generator[w]
       IN  /\ arrays' = [arrays EXCEPT ![Local(w)] =
                  Transient(arrays[g.x_current], arrays[g.r], g.epsilon,
                            PERFORMANCE_MODE, 0, TRANSIENT_STEPS(PERFORMANCE_MODE))]
           /\ generator' = [generator EXCEPT ![w].pc = "settled",
                                             ![w].x_current = Local(w)]
    /\ UNCHANGED <<now, cipherState, keystreams, generated>>
    /\ UNCHANGED outsideKeystream

(* lines 118-141: one byte of the chunk *)
EmitByte(w) ==
    /\ generator[w].pc = "settled"
    /\ Len(generator[w].keystream) < generator[w].length
    /\ LET g == generator[w]
       IN  \E evolved \in {Evolve(arrays[g.x_current], arrays[g.r], g.epsilon)} :
              /\ arrays' = [arrays EXCEPT ![Local(w)] = evolved]
              /\ generator' = [generator EXCEPT
                     ![w].x_current = Local(w),
                     ![w].keystream = Append(g.keystream,
                                             OutputByte(evolved, PERFORMANCE_MODE))]
    /\ UNCHANGED <<now, cipherState, keystreams, generated>>
    /\ UNCHANGED outsideKeystream

(* lines 143-145: the bytes are returned, and the arrays of the call are   *)
(* garbage                                                                 *)
ReturnKeystream(w) ==
    /\ generator[w].pc = "settled"
    /\ Len(generator[w].keystream) = generator[w].length
    /\ keystreams' = [keystreams EXCEPT ![w] =
           [given |-> generator[w].given, keystream |-> generator[w].keystream]]
    /\ arrays' = [arrays EXCEPT ![Local(w)] = <<>>]
    /\ generator' = [generator EXCEPT ![w] = NoGenerator]
    /\ UNCHANGED <<now, cipherState, generated>>
    /\ UNCHANGED outsideKeystream

(* the module is imported in some mode, and two lattices are initialised *)
GeneratorInit ==
    /\ PERFORMANCE_MODE \in GeneratorModes
    /\ protected = NoBlob
    /\ cipher_result = NoResult
    /\ arrays = [id \in ArrayIds |->
                   IF id[1] = "x" THEN LatticeOf(id[2], PERFORMANCE_MODE).x
                   ELSE IF id[1] = "r" THEN LatticeOf(id[2], PERFORMANCE_MODE).r
                   ELSE <<>>]
    /\ generator = [w \in Workers |-> NoGenerator]
    /\ keystreams = [w \in Workers |-> NoKeystream]
    /\ generated = 0

KeystreamNext ==
    \/ \E w \in Workers, name \in LatticeNames, length \in KeystreamLengths :
          StartKeystream(w, name, length)
    \/ \E w \in Workers : Settle(w)
    \/ \E w \in Workers : EmitByte(w)
    \/ \E w \in Workers : ReturnKeystream(w)

----------------------------------------------------------------------------
(* C34: under a fixed mode the keystream generator is a pure function of   *)
(* (x, r, epsilon, length): two calls with equal arguments return the same *)
(* bytes, no call changes an input vector, and the lattice a call works on *)
(* is an array of its own, never an input vector and never the lattice of  *)
(* the other thread.                                                       *)
C34_KeystreamIsPure ==
    /\ \A v, w \in Workers :
          (keystreams[v] # NoKeystream /\ keystreams[v].given = keystreams[w].given)
             => keystreams[v].keystream = keystreams[w].keystream
    /\ \A id \in InputIds :
          arrays[id] = IF id[1] = "x" THEN LatticeOf(id[2], PERFORMANCE_MODE).x
                       ELSE LatticeOf(id[2], PERFORMANCE_MODE).r
    /\ \A w \in Workers :
          generator[w].pc # "idle" =>
             /\ generator[w].x_current \notin InputIds
             /\ \A v \in Workers \ {w} :
                   generator[v].pc # "idle" =>
                      generator[v].x_current # generator[w].x_current

(* both threads have completed a call of two bytes on the same arrays *)
C34_Witness ==
    /\ keystreams["w1"] # NoKeystream
    /\ keystreams["w1"].given = keystreams["w2"].given
    /\ Len(keystreams["w1"].keystream) = 2
    /\ Len(keystreams["w2"].keystream) = 2

----------------------------------------------------------------------------
(***************************************************************************)
(* The processing locks of RedisStorageAdapter (app/core/redis_storage.py  *)
(* lines 206-241).  The coroutines of two clients interleave at their      *)
(* awaits; the Redis server executes one command at a time; a command may  *)
(* fail before the server sees it.                                         *)
(***************************************************************************)

(* Bound: the number of adapter calls *)
MaxRedisCalls == 3

(* Bound: the last instant of the server clock *)
MaxRedisTime == 1

RedisClients == {"r1", "r2"}

PROCESSING_LOCK_PREFIX == "sectify:processing_lock:"

RedisLockKeys == {"t1:encryption", "t2:encryption"}

RedisKeys == {<<PROCESSING_LOCK_PREFIX, lock_key>> : lock_key \in RedisLockKeys}

(* ttl_seconds; Redis rejects an expire time of zero *)
TtlSeconds == {0, 1}

NoValue == [value |-> "none", expires_at |-> 0]

NoRedisCall == [pc |-> "idle", op |-> "none", key |-> <<>>, ttl_seconds |-> 0,
                reply |-> "none", count |-> 0, won |-> FALSE, result |-> "none"]

(* a key is there until its time to live is over *)
Exists(store, key, t) == store[key] # NoValue /\ t < store[key].expires_at

(* SET key value EX ex that overwrites *)
set_always(store, key, value, nx, ex, t) ==
    IF ex <= 0 THEN [store |-> store, reply |-> "error"]
    ELSE [store |-> [store EXCEPT ![key] = [value |-> value, expires_at |-> t + ex]],
          reply |-> "OK"]

(* lines 217-222: redis_client.set(key, value, nx=True, ex=ttl_seconds),   *)
(* as the server executes it at time t                                     *)
set(store, key, value, nx, ex, t) ==
    IF ex <= 0 THEN [store |-> store, reply |-> "error"]
    ELSE IF nx /\ Exists(store, key, t) THEN [store |-> store, reply |-> None]
    ELSE [store |-> [store EXCEPT ![key] = [value |-> value, expires_at |-> t + ex]],
          reply |-> "OK"]

(* line 237: redis_client.delete(key) *)
delete(store, key, t) ==
    [store |-> [store EXCEPT ![key] = NoValue],
     count |-> IF Exists(store, key, t) THEN 1 ELSE 0]

(* connect(), lines 32-48 *)
connect ==
    /\ ~connected
    /\ connected' = TRUE
    /\ UNCHANGED <<now, redis_keys, redis_call, wins, redis_calls>>
    /\ UNCHANGED outsideRedis

(* disconnect(), lines 50-55 *)
disconnect ==
    /\ connected
    /\ connected' = FALSE
    /\ UNCHANGED <<now, redis_keys, redis_call, wins, redis_calls>>
    /\ UNCHANGED outsideRedis

(* lines 213-216 and 232-235: the call up to its await; a call on an       *)
(* adapter that is not connected returns False at once                     *)
CallAdapter(c, op, lock_key, ttl_seconds) ==
    /\ redis_call[c].pc = "idle"
    /\ redis_calls < MaxRedisCalls
    /\ redis_calls' = redis_calls + 1
    /\ LET key == <<PROCESSING_LOCK_PREFIX, lock_key>>
           call == [NoRedisCall EXCEPT !.op = op, !.key = key,
                                       !.ttl_seconds = ttl_seconds]
       IN  IF ~connected
           THEN redis_call' = [redis_call EXCEPT ![c] = [call EXCEPT !.result = "False"]]
           ELSE redis_call' = [redis_call EXCEPT ![c] = [call EXCEPT !.pc = "awaiting"]]
    /\ UNCHANGED <<now, connected, redis_keys, wins>>
    /\ UNCHANGED outsideRedis

(* the server executes the command of the call, and the reply reaches the  *)
(* client                                                                  *)
Execute(c) ==
    /\ redis_call[c].pc = "awaiting"
    /\ LET call == redis_call[c]
       IN  IF call.op = "acquire_processing_lock"
           THEN LET done == set(redis_keys, call.key, c, TRUE, call.ttl_seconds, now)
                IN  /\ redis_keys' = done.store
                    /\ wins' = IF done.reply = "OK"
                               THEN [wins EXCEPT ![call.key] =
                                        Append(@, [client |-> c,
                                                   until |-> now + call.ttl_seconds])]
                               ELSE wins
                    /\ redis_call' = [redis_call EXCEPT ![c].pc = "replied",
                                                        ![c].reply = done.reply,
                                                        ![c].won = done.reply = "OK"]
           ELSE LET done == delete(redis_keys, call.key, now)
                IN  /\ redis_keys' = done.store
                    /\ wins' = IF done.count > 0 THEN [wins EXCEPT ![call.key] = <<>>]
                               ELSE wins
                    /\ redis_call' = [redis_call EXCEPT ![c].pc = "replied",
                                                        ![c].reply = "int",
                                                        ![c].count = done.count]
    /\ UNCHANGED <<now, connected, redis_calls>>
    /\ UNCHANGED outsideRedis

(* the command never reaches the server, and the client raises *)
FailToSend(c) ==
    /\ redis_call[c].pc = "awaiting"
    /\ redis_call' = [redis_call EXCEPT ![c].pc = "replied", ![c].reply = "error"]
    /\ UNCHANGED <<now, connected, redis_keys, wins, redis_calls>>
    /\ UNCHANGED outsideRedis

(* lines 223-226 and 238-241: result is not None, result > 0, or False     *)
(* after an exception                                                      *)
ReturnFromAdapter(c) ==
    /\ redis_call[c].pc = "replied"
    /\ LET call == redis_call[c]
           value == IF call.reply = "error" THEN FALSE
                    ELSE IF call.op = "acquire_processing_lock" THEN call.reply # None
                    ELSE call.count > 0
       IN  redis_call' = [redis_call EXCEPT ![c].pc = "idle",
                                            ![c].result = IF value THEN "True" ELSE "False"]
    /\ UNCHANGED <<now, connected, redis_keys, wins, redis_calls>>
    /\ UNCHANGED outsideRedis

(* the clock of the server advances; the acquisitions whose time to live   *)
(* is over are forgotten                                                   *)
RedisTick ==
    /\ now < MaxRedisTime
    /\ now' = now + 1
    /\ wins' = [key \in RedisKeys |-> SelectSeq(wins[key], LAMBDA w : now + 1 < w.until)]
    /\ UNCHANGED <<connected, redis_keys, redis_call, redis_calls>>
    /\ UNCHANGED outsideRedis

RedisAdapterInit ==
    /\ connected = FALSE
    /\ redis_keys = [key \in RedisKeys |-> NoValue]
    /\ redis_call = [c \in RedisClients |-> NoRedisCall]
    /\ wins = [key \in RedisKeys |-> <<>>]
    /\ redis_calls = 0

RedisNext ==
    \/ connect
    \/ disconnect
    \/ \E c \in RedisClients, lock_key \in RedisLockKeys, ttl_seconds \in TtlSeconds :
          CallAdapter(c, "acquire_processing_lock", lock_key, ttl_seconds)
    \/ \E c \in RedisClients, lock_key \in RedisLockKeys :
          CallAdapter(c, "release_processing_lock", lock_key, 0)
    \/ \E c \in RedisClients : Execute(c)
    \/ \E c \in RedisClients : FailToSend(c)
    \/ \E c \in RedisClients : ReturnFromAdapter(c)
    \/ RedisTick

----------------------------------------------------------------------------
(* the last call of client c was acquire_processing_lock and returned true *)
ReturnedTrue(c) ==
    /\ redis_call[c].op = "acquire_processing_lock"
    /\ redis_call[c].result = "True"

(* C36: for one lock key, at most one acquire_processing_lock call takes   *)
(* the key between two moments at which the key is free (deleted, or its   *)
(* time to live over), and exactly the calls that took the key return      *)
(* true.  A call on an adapter that is not connected returns false and     *)
(* stores nothing.                                                         *)
C36_AtomicSetIfAbsent ==
    /\ [](\A key \in RedisKeys : Len(wins[key]) <= 1)
    /\ [](\A c \in RedisClients :
             /\ ReturnedTrue(c) => redis_call[c].won
             /\ (redis_call[c].won /\ redis_call[c].pc = "idle") => ReturnedTrue(c))
    /\ [][\A c \in RedisClients :
             (~connected /\ redis_call'[c] # redis_call[c] /\ redis_call[c].pc = "idle")
                => /\ redis_call'[c].result = "False"
                   /\ redis_call'[c].pc = "idle"
                   /\ redis_keys' = redis_keys]_vars

(* two clients had called acquire_processing_lock for the same absent key  *)
(* before either command reached the server: one has returned true and the *)
(* other false                                                             *)
C36_Witness ==
    /\ ReturnedTrue("r1")
    /\ redis_call["r2"].op = "acquire_processing_lock"
    /\ redis_call["r2"].key = redis_call["r1"].key
    /\ redis_call["r2"].reply = None
    /\ redis_call["r2"].result = "False"
    /\ redis_calls = 2
    /\ now = 0

----------------------------------------------------------------------------
(***************************************************************************)
(* The chaos sanity check of encrypt_with_validation                       *)
(* (app/core/chaotic_cipher.py lines 282-306).  _initialize_cml is called  *)
(* without a salt at line 293 and again at line 157 (inside encrypt), and  *)
(* draws secrets.token_bytes(32) each time (line 48).                      *)
(***************************************************************************)

(* the salts secrets.token_bytes draws *)
DrawnSalts == Salts \cup {Repeat(255, SALT_LENGTH)}

NoSanity == [kind |-> "none"]

(* lines 286-306: the first draw is the salt of the state that is          *)
(* analysed, the second draw is the salt of encrypt                        *)
CheckAndEncrypt(data, secret_key, first_salt, second_salt) ==
    /\ sanity = NoSanity
    /\ LET done == encrypt_with_validation(data, secret_key, second_salt, PERFORMANCE_MODE)
       IN  sanity' = IF done.kind = "blob"
                     THEN [kind |-> "blob", secret_key |-> secret_key, value |-> done.value,
                           analysed |-> _initialize_cml(secret_key, first_salt,
                                                        PERFORMANCE_MODE)]
                     ELSE [kind |-> done.kind, secret_key |-> secret_key]
    /\ UNCHANGED <<now, cipherState>>
    /\ UNCHANGED outsideSanity

SanityCheckInit == sanity = NoSanity

SanityNext ==
    \E data \in Plaintexts, secret_key \in SecretKeys,
       first_salt \in DrawnSalts, second_salt \in DrawnSalts :
       CheckAndEncrypt(data, secret_key, first_salt, second_salt)

----------------------------------------------------------------------------
(* the CML state that generates the keystream of a blob: the state derived *)
(* from the key and the salt at the head of the blob                       *)
StateOfBlob(secret_key, value) ==
    _initialize_cml(secret_key, SubSeq(value, 1, SALT_LENGTH), PERFORMANCE_MODE)

(* C39: the CML state (x, r, epsilon and salt) analysed by the sanity      *)
(* check of encrypt_with_validation is the state that generates the        *)
(* keystream of the blob the call returns.                                 *)
C39_AnalysedStateIsUsed ==
    sanity.kind = "blob" => sanity.analysed = StateOfBlob(sanity.secret_key, sanity.value)

(* the lock manager is idle while the session manager is examined *)
LockIdle ==
    /\ processing_locks = EmptyMap
    /\ user_processing = EmptyMap
    /\ file_locks = [t \in Tracks |-> FreshLock]
    /\ last_cleanup = 0
    /\ pc = [c \in Callers |-> "idle"]
    /\ arg = [c \in Callers |-> NoArg]
    /\ outcome = Finished("none", NoArg)
    /\ beaten = [c \in Callers |-> FALSE]
    /\ attempts = 0

(* no session exists while the lock manager is examined *)
SessionIdle ==
    /\ active_sessions = EmptyMap
    /\ revoked_sessions = {}
    /\ user_sessions = EmptyMap
    /\ session_cleanup = 0
    /\ next_sid = 1
    /\ validation = "none yet"
    /\ ever_revoked = {}
    /\ calls = 0
    /\ workload = [sessions |-> 0, calls |-> 0]
    /\ session_timeout_minutes = 30

(* no access token exists while another component is examined *)
AuthIdle == AuthServiceInit

(* no signed token was handed out while another component is examined *)
TokenIdle == TokenUtilsInit

(* the HLS root is empty and not swept while another component is examined *)
HlsIdle == HlsCleanupInit

(* no blob was made while another component is examined *)
CipherIdle ==
    /\ PERFORMANCE_MODE = "balanced"
    /\ protected = NoBlob
    /\ cipher_result = NoResult

(* no file is being encrypted while another component is examined *)
ProgressIdle ==
    /\ _progress_storage = EmptyMap
    /\ episode = NoEpisode
    /\ published = <<>>
    /\ episodes = 0
    /\ output_files = [t \in ProgressTracks |-> "absent"]

(* no handler is calling create_session while another component is examined *)
LoginIdle ==
    /\ login = [h \in Handlers |-> NotCalling]
    /\ running = NoHandler

(* no coroutine waits for a track while another component is examined *)
WaitIdle ==
    /\ completion = NotWaiting
    /\ waits = 0

(* no exception is handled while another component is examined *)
ErrorIdle ==
    /\ IS_PRODUCTION = TRUE
    /\ responses = <<>>
    /\ error_log = <<>>

(* no keystream byte is looked at while another component is examined *)
DiffusionIdle ==
    /\ diffusion = MixedByte(0)

(* no audio file is encrypted or decrypted while another component is examined *)
ModeIdle ==
    /\ environ = Absent
    /\ file_call = [w \in Workers |-> NoFileCall]
    /\ file_calls = 0

(* no keystream is generated statement by statement while another component is examined *)
KeystreamIdle ==
    /\ arrays = [id \in ArrayIds |-> <<>>]
    /\ generator = [w \in Workers |-> NoGenerator]
    /\ keystreams = [w \in Workers |-> NoKeystream]
    /\ generated = 0

(* the Redis adapter is not used while another component is examined *)
RedisIdle ==
    /\ connected = FALSE
    /\ redis_keys = [key \in RedisKeys |-> NoValue]
    /\ redis_call = [c \in RedisClients |-> NoRedisCall]
    /\ wins = [key \in RedisKeys |-> <<>>]
    /\ redis_calls = 0

(* encrypt_with_validation is not called with its two draws while another component is examined *)
SanityIdle ==
    /\ sanity = NoSanity

LockInit == now = 0 /\ LockIdle /\ SessionIdle /\ AuthIdle /\ TokenIdle /\ HlsIdle /\ CipherIdle /\ ProgressIdle /\ LoginIdle /\ WaitIdle /\ ErrorIdle /\ DiffusionIdle /\ ModeIdle /\ KeystreamIdle /\ RedisIdle /\ SanityIdle

SessionInit == SessionManagerInit /\ LockIdle /\ AuthIdle /\ TokenIdle /\ HlsIdle /\ CipherIdle /\ ProgressIdle /\ LoginIdle /\ WaitIdle /\ ErrorIdle /\ DiffusionIdle /\ ModeIdle /\ KeystreamIdle /\ RedisIdle /\ SanityIdle

AuthInit == now = 0 /\ AuthServiceInit /\ LockIdle /\ SessionIdle /\ TokenIdle /\ HlsIdle /\ CipherIdle /\ ProgressIdle /\ LoginIdle /\ WaitIdle /\ ErrorIdle /\ DiffusionIdle /\ ModeIdle /\ KeystreamIdle /\ RedisIdle /\ SanityIdle

TokenInit == now = 0 /\ TokenUtilsInit /\ LockIdle /\ SessionIdle /\ AuthIdle /\ HlsIdle /\ CipherIdle /\ ProgressIdle /\ LoginIdle /\ WaitIdle /\ ErrorIdle /\ DiffusionIdle /\ ModeIdle /\ KeystreamIdle /\ RedisIdle /\ SanityIdle

HlsInit == now = 0 /\ HlsCleanupInit /\ LockIdle /\ SessionIdle /\ AuthIdle /\ TokenIdle /\ CipherIdle /\ ProgressIdle /\ LoginIdle /\ WaitIdle /\ ErrorIdle /\ DiffusionIdle /\ ModeIdle /\ KeystreamIdle /\ RedisIdle /\ SanityIdle

CipherInit == now = 0 /\ ChaoticCipherInit /\ LockIdle /\ SessionIdle /\ AuthIdle /\ TokenIdle /\ HlsIdle /\ ProgressIdle /\ LoginIdle /\ WaitIdle /\ ErrorIdle /\ DiffusionIdle /\ ModeIdle /\ KeystreamIdle /\ RedisIdle /\ SanityIdle

ProgressInit == now = 0 /\ ProgressStorageInit /\ LockIdle /\ SessionIdle /\ AuthIdle /\ TokenIdle /\ HlsIdle /\ CipherIdle /\ LoginIdle /\ WaitIdle /\ ErrorIdle /\ DiffusionIdle /\ ModeIdle /\ KeystreamIdle /\ RedisIdle /\ SanityIdle

LoginInit == now = 0 /\ ConcurrentLoginInit /\ LockIdle /\ SessionIdle /\ AuthIdle /\ TokenIdle /\ HlsIdle /\ CipherIdle /\ ProgressIdle /\ WaitIdle /\ ErrorIdle /\ DiffusionIdle /\ ModeIdle /\ KeystreamIdle /\ RedisIdle /\ SanityIdle

WaitInit == now = 0 /\ WaitForCompletionInit /\ LockIdle /\ SessionIdle /\ AuthIdle /\ TokenIdle /\ HlsIdle /\ CipherIdle /\ ProgressIdle /\ LoginIdle /\ ErrorIdle /\ DiffusionIdle /\ ModeIdle /\ KeystreamIdle /\ RedisIdle /\ SanityIdle

(* the session manager under the workload of few logins and many other calls *)
ValidationInit == SessionInit /\ workload = [sessions |-> FewSessions, calls |-> ManyCalls]

ErrorInit == now = 0 /\ ErrorHandlerInit /\ LockIdle /\ SessionIdle /\ AuthIdle /\ TokenIdle /\ HlsIdle /\ CipherIdle /\ ProgressIdle /\ LoginIdle /\ WaitIdle /\ DiffusionIdle /\ ModeIdle /\ KeystreamIdle /\ RedisIdle /\ SanityIdle

DiffusionInit == now = 0 /\ KeystreamByteInit /\ LockIdle /\ SessionIdle /\ AuthIdle /\ TokenIdle /\ HlsIdle /\ ChaoticCipherInit /\ ProgressIdle /\ LoginIdle /\ WaitIdle /\ ErrorIdle /\ ModeIdle /\ KeystreamIdle /\ RedisIdle /\ SanityIdle

ModeInit == now = 0 /\ PerformanceModeInit /\ LockIdle /\ SessionIdle /\ AuthIdle /\ TokenIdle /\ HlsIdle /\ ProgressIdle /\ LoginIdle /\ WaitIdle /\ ErrorIdle /\ DiffusionIdle /\ KeystreamIdle /\ RedisIdle /\ SanityIdle

KeystreamInit == now = 0 /\ GeneratorInit /\ LockIdle /\ SessionIdle /\ AuthIdle /\ TokenIdle /\ HlsIdle /\ ProgressIdle /\ LoginIdle /\ WaitIdle /\ ErrorIdle /\ DiffusionIdle /\ ModeIdle /\ RedisIdle /\ SanityIdle

RedisInit == now = 0 /\ RedisAdapterInit /\ LockIdle /\ SessionIdle /\ AuthIdle /\ TokenIdle /\ HlsIdle /\ CipherIdle /\ ProgressIdle /\ LoginIdle /\ WaitIdle /\ ErrorIdle /\ DiffusionIdle /\ ModeIdle /\ KeystreamIdle /\ SanityIdle

SanityInit == now = 0 /\ SanityCheckInit /\ LockIdle /\ SessionIdle /\ AuthIdle /\ TokenIdle /\ HlsIdle /\ ChaoticCipherInit /\ ProgressIdle /\ LoginIdle /\ WaitIdle /\ ErrorIdle /\ DiffusionIdle /\ ModeIdle /\ KeystreamIdle /\ RedisIdle

LockSpec == LockInit /\ [][LockNext]_vars

SessionSpec == SessionInit /\ [][SessionNext]_vars

ValidationSpec == ValidationInit /\ [][SessionNext]_vars

AuthSpec == AuthInit /\ [][AuthNext]_vars

TokenSpec == TokenInit /\ [][TokenNext]_vars

HlsSpec == HlsInit /\ [][HlsNext]_vars

CipherSpec == CipherInit /\ [][CipherNext]_vars

ProgressSpec == ProgressInit /\ [][ProgressNext]_vars

LoginSpec == LoginInit /\ [][LoginNext]_vars

WaitSpec == WaitInit /\ [][WaitNext]_vars

WaitLiveSpec == WaitInit /\ [][WaitNext]_vars /\ WaitFairness

ErrorSpec == ErrorInit /\ [][ErrorNext]_vars

DiffusionSpec == DiffusionInit /\ [][DiffusionNext]_vars

ModeSpec == ModeInit /\ [][ModeNext]_vars

KeystreamSpec == KeystreamInit /\ [][KeystreamNext]_vars

RedisSpec == RedisInit /\ [][RedisNext]_vars

SanitySpec == SanityInit /\ [][SanityNext]_vars

====
